---- MODULE Spec2Model ----
(***************************************************************************)
(* Model of the WhatsApp wallet bot (Timi16/Dbot): the webhook controller  *)
(* (handleIncomingMessage -> handleMainFlow -> flow step handlers), the    *)
(* session service, the account guard of the Prisma client and the         *)
(* transaction service, for one phone handle.                              *)
(*                                                                         *)
(* Text is held as a sequence of one-character strings, so that the        *)
(* keyword, substring and pattern tests of the code are computed on the    *)
(* characters of a message.  Amounts are held in tenths (0.5 is 5).        *)
(***************************************************************************)
EXTENDS Integers, Sequences, FiniteSets, TLC

(***************************************************************************)
(* Text helpers (String.prototype.toLowerCase / trim / includes / split).  *)
(***************************************************************************)
UpperChars == <<"A","B","C","D","E","F","G","H","I","J","K","L","M","N","O","P","Q","R","S","T","U","V","W","X","Y","Z">>
LowerChars == <<"a","b","c","d","e","f","g","h","i","j","k","l","m","n","o","p","q","r","s","t","u","v","w","x","y","z">>
DigitChars == <<"0","1","2","3","4","5","6","7","8","9">>

Range(s) == {s[i] : i \in DOMAIN s}

IsSpace(c) == c \in {" ", "\t", "\n", "\r"}

IsDigit(c) == c \in Range(DigitChars)

\* [A-Za-z0-9_], the class behind the \b of the regular expressions
IsWordChar(c) == c \in Range(UpperChars) \cup Range(LowerChars) \cup Range(DigitChars) \cup {"_"}

LowerOf(c) ==
    IF c \in Range(UpperChars)
    THEN LowerChars[CHOOSE i \in DOMAIN UpperChars : UpperChars[i] = c]
    ELSE c

UpperOf(c) ==
    IF c \in Range(LowerChars)
    THEN UpperChars[CHOOSE i \in DOMAIN LowerChars : LowerChars[i] = c]
    ELSE c

ToLowerCase(s) == [i \in DOMAIN s |-> LowerOf(s[i])]

ToUpperCase(s) == [i \in DOMAIN s |-> UpperOf(s[i])]

Trim(s) ==
    LET idx == {i \in DOMAIN s : ~IsSpace(s[i])}
    IN  IF idx = {} THEN <<>>
        ELSE LET lo == CHOOSE i \in idx : \A j \in idx : i <= j
                 hi == CHOOSE i \in idx : \A j \in idx : j <= i
             IN  SubSeq(s, lo, hi)

\* s.includes(sub)
Includes(s, sub) ==
    \E i \in 1..(Len(s) - Len(sub) + 1) : SubSeq(s, i, i + Len(sub) - 1) = sub

\* s.split(/\s+/).length
SplitLength(s) ==
    IF Len(s) = 0 THEN 1
    ELSE 1 + Cardinality({i \in 1..Len(s) : IsSpace(s[i]) /\ (i = 1 \/ ~IsSpace(s[i-1]))})

\* /\b(w)\b/.test(s)
WordMatch(s, w) ==
    \E i \in 1..(Len(s) - Len(w) + 1) :
        /\ SubSeq(s, i, i + Len(w) - 1) = w
        /\ (i = 1 \/ ~IsWordChar(s[i-1]))
        /\ (i + Len(w) - 1 = Len(s) \/ ~IsWordChar(s[i + Len(w)]))

(***************************************************************************)
(* Address grammars (webhook.controller.ts isContractAddress).             *)
(***************************************************************************)
Base58Chars ==
    (Range(DigitChars) \ {"0"}) \cup (Range(UpperChars) \ {"I", "O"}) \cup (Range(LowerChars) \ {"l"})

HexChars == Range(DigitChars) \cup {"a","b","c","d","e","f","A","B","C","D","E","F"}

\* /^[1-9A-HJ-NP-Za-km-z]{32,44}$/
IsSolanaShape(s) == Len(s) >= 32 /\ Len(s) <= 44 /\ \A i \in DOMAIN s : s[i] \in Base58Chars

\* /^0x[a-fA-F0-9]{40}$/
IsEvmShape(s) ==
    /\ Len(s) = 42
    /\ s[1] = "0" /\ s[2] = "x"
    /\ \A i \in 3..42 : s[i] \in HexChars

isContractAddress(input) ==
    LET trimmed == Trim(input)
    IN  IsSolanaShape(trimmed) \/ IsEvmShape(trimmed)

detectChainFromAddress(address) ==
    IF IsSolanaShape(Trim(address)) THEN "solana" ELSE "evm"

\* /\b(0x[a-fA-F0-9]{40}|[1-9A-HJ-NP-Za-km-z]{32,44})\b/.test(message)
HasContractAddress(message) ==
    \E i \in 1..Len(message) : \E j \in i..Len(message) :
        /\ (IsSolanaShape(SubSeq(message, i, j)) \/ IsEvmShape(SubSeq(message, i, j)))
        /\ (i = 1 \/ ~IsWordChar(message[i-1]))
        /\ (j = Len(message) \/ ~IsWordChar(message[j+1]))

(***************************************************************************)
(* Numbers: parseFloat and Number.prototype.toString, in tenths.           *)
(***************************************************************************)
NaN == 0 - 1

DigitVal(c) == (CHOOSE i \in DOMAIN DigitChars : DigitChars[i] = c) - 1

RECURSIVE DigitsVal(_)
DigitsVal(s) == IF Len(s) = 0 THEN 0 ELSE 10 * DigitsVal(SubSeq(s, 1, Len(s) - 1)) + DigitVal(s[Len(s)])

\* number of leading decimal digits of s
LeadingDigits(s) ==
    Cardinality({i \in DOMAIN s : \A j \in 1..i : IsDigit(s[j])})

\* parseFloat(s): the longest prefix digits[.digits]; NaN when it has no digit.
\* The value is kept in tenths; the bodies of the model carry at most one
\* fractional digit.
parseFloat(s) ==
    LET t == Trim(s)
        n == LeadingDigits(t)
        rest == SubSeq(t, n + 1, Len(t))
        f == IF Len(rest) > 0 /\ rest[1] = "." THEN LeadingDigits(SubSeq(rest, 2, Len(rest))) ELSE 0
    IN  IF n = 0 /\ f = 0 THEN NaN
        ELSE 10 * DigitsVal(SubSeq(t, 1, n)) + (IF f > 0 THEN DigitVal(rest[2]) ELSE 0)

RECURSIVE DecStr(_)
DecStr(n) == IF n < 10 THEN <<DigitChars[n + 1]>> ELSE DecStr(n \div 10) \o <<DigitChars[(n % 10) + 1]>>

\* amount.toString() of a number held in tenths: 5 is "0.5", 50 is "5"
NumToString(a) ==
    IF a % 10 = 0 THEN DecStr(a \div 10)
    ELSE DecStr(a \div 10) \o <<".">> \o <<DigitChars[(a % 10) + 1]>>

\* validation.util.js isValidAmount
isValidAmount(amount) == amount # NaN /\ amount > 0

(***************************************************************************)
(* Keyword tables of the controller and of the AI service.                 *)
(***************************************************************************)
casualPhrases ==
    { <<"h","i">>, <<"h","e","l","l","o">>, <<"h","e","y">>,
      <<"s","u","p">>, <<"w","a","s","s","u","p">>, <<"h","o","w"," ","a","r","e"," ","y","o","u">>,
      <<"h","o","w","'","r","e"," ","y","o","u">>, <<"g","o","o","d"," ","m","o","r","n","i","n","g">>, <<"g","o","o","d"," ","a","f","t","e","r","n","o","o","n">>,
      <<"g","o","o","d"," ","e","v","e","n","i","n","g">>, <<"w","h","a","t","s"," ","u","p">>, <<"w","h","a","t","'","s"," ","u","p">>,
      <<"h","o","w"," ","y","o","u"," ","d","o","i","n","g">>, <<"h","o","w"," ","a","r","e"," ","y","o","u"," ","d","o","i","n","g">>, <<"h","o","w","'","s"," ","i","t"," ","g","o","i","n","g">>,
      <<"h","o","w","s"," ","i","t"," ","g","o","i","n","g">>, <<"y","o">>, <<"o","l","a">>,
      <<"h","o","l","a">> }

tradingKeywords ==
    { <<"s","w","a","p">>, <<"b","u","y">>, <<"s","e","n","d">>, <<"b","a","l","a","n","c","e">>,
      <<"a","d","d","r","e","s","s">>, <<"t","r","a","d","e">> }

buyPattern ==
    { <<"b","u","y">>, <<"p","u","r","c","h","a","s","e">>, <<"g","e","t">>, <<"s","w","a","p">>,
      <<"t","r","a","d","e">> }

confirmKeywords ==
    { <<"y","e","s">>, <<"y">>, <<"c","o","n","f","i","r","m">>, <<"o","k">>,
      <<"o","k","a","y">>, <<"s","u","r","e">>, <<"p","r","o","c","e","e","d">>, <<"c","o","n","t","i","n","u","e">>,
      <<"s","a","v","e","d">> }

cancelKeywords ==
    { <<"n","o">>, <<"n">>, <<"c","a","n","c","e","l">>, <<"s","t","o","p">>,
      <<"a","b","o","r","t">>, <<"n","e","v","e","r","m","i","n","d">>, <<"b","a","c","k">> }

helpKeywords ==
    { <<"h","e","l","p">>, <<"m","e","n","u">>, <<"c","o","m","m","a","n","d","s">>, <<"o","p","t","i","o","n","s">> }

buyKeywords ==
    { <<"b","u","y">>, <<"p","u","r","c","h","a","s","e">>, <<"g","e","t">> }

swapKeywords ==
    { <<"s","w","a","p">>, <<"t","r","a","d","e">>, <<"e","x","c","h","a","n","g","e">> }

sendValidChains ==
    { <<"s","o","l","a","n","a">>, <<"e","t","h","e","r","e","u","m">>, <<"b","a","s","e">>, <<"b","s","c">>, <<"0","g">> }

swapValidChains ==
    { <<"s","o","l","a","n","a">>, <<"e","t","h","e","r","e","u","m">>, <<"b","a","s","e">>, <<"b","s","c">> }

S_solana == <<"s","o","l","a","n","a">>

S_ethereum == <<"e","t","h","e","r","e","u","m">>

S_confirm == <<"c","o","n","f","i","r","m">>

S_yes == <<"y","e","s">>

S_cancel == <<"c","a","n","c","e","l">>

S_SOL == <<"S","O","L">>

S_ETH == <<"E","T","H">>

S_USDC == <<"U","S","D","C">>

S_native == <<"n","a","t","i","v","e">>

\* chains.config.ts normalizeChainKey: the alias table, as (alias, chain key) pairs
aliasMap ==
    { <<<<"e","t","h">>, <<"e","t","h","e","r","e","u","m">>>>,
      <<<<"e","t","h","e","r","e","u","m">>, <<"e","t","h","e","r","e","u","m">>>>,
      <<<<"m","a","i","n","n","e","t">>, <<"e","t","h","e","r","e","u","m">>>>,
      <<<<"b","a","s","e">>, <<"b","a","s","e">>>>,
      <<<<"b","s","c">>, <<"b","s","c">>>>,
      <<<<"b","i","n","a","n","c","e">>, <<"b","s","c">>>>,
      <<<<"b","n","b">>, <<"b","s","c">>>>,
      <<<<"0","g">>, <<"0","g">>>>,
      <<<<"o","g">>, <<"0","g">>>>,
      <<<<"z","e","r","o","g">>, <<"0","g">>>>,
      <<<<"s","o","l">>, <<"s","o","l","a","n","a">>>>,
      <<<<"s","o","l","a","n","a">>, <<"s","o","l","a","n","a">>>> }

(***************************************************************************)
(* The inbound message bodies and the values of the model.                 *)
(***************************************************************************)
B_send == <<"s","e","n","d">>

B_solana == <<"s","o","l","a","n","a">>

B_ethereum == <<"e","t","h","e","r","e","u","m">>

B_solAddr == <<"7","x","K","X","t","g","2","C","W","8","7","d","9","7","T","X","J","S","D","p","b","D","5","j","B","k","h","e","T","q","A","8","3","T","Z","R","u","J","o","s","g","A","s","U">>

B_hexAddr == <<"a","0","b","1","c","2","d","3","e","4","f","5","a","0","b","1","c","2","d","3","e","4","f","5","a","0","b","1","c","2","d","3","e","4","f","5","a","0","b","1">>

B_half == <<"0",".","5">>

B_five == <<"5",".","0">>

B_confirm == <<"c","o","n","f","i","r","m">>

B_pin == <<"5","2","9","6">>

B_wrongPin == <<"4","8","2","1">>

B_cancel == <<"c","a","n","c","e","l">>

B_swap == <<"s","w","a","p">>

UserId == <<"c","k","u","1">>

(***************************************************************************)
(* Pure functions of the controller, the AI service and the utilities.     *)
(***************************************************************************)
\* the null / undefined of the code: a text that no message can equal
Null == <<"null">>

\* validation.util.js sanitizeInput: control characters removed, then trim
IsControl(c) == c \in {"\t", "\n", "\r", "\f"}

sanitizeInput(input) ==
    Trim(SelectSeq(input, LAMBDA c : ~IsControl(c)))

isCasualMessage(message) ==
    LET lower == Trim(ToLowerCase(message))
    IN  /\ SplitLength(lower) <= 5
        /\ \E phrase \in casualPhrases : Includes(lower, phrase)
        /\ ~(\E kw \in tradingKeywords : Includes(lower, kw))

\* ai.service.ts detectSimpleIntent; the result is an Intent value or Null
detectSimpleIntent(message) ==
    LET lower == Trim(ToLowerCase(message))
        hasBuyKeyword == \E w \in buyPattern : WordMatch(lower, w)
    IN  IF isCasualMessage(message) THEN "null"
        ELSE IF hasBuyKeyword /\ HasContractAddress(message) THEN "swap_tokens"
        ELSE IF lower \in confirmKeywords THEN "confirm"
        ELSE IF lower \in cancelKeywords THEN "cancel"
        ELSE IF lower \in helpKeywords THEN "help"
        ELSE IF lower \in buyKeywords THEN "swap_tokens"
        ELSE IF lower \in swapKeywords THEN "swap_tokens"
        ELSE "null"

\* chains.config.ts normalizeChainKey; Null stands for the thrown Error
normalizeChainKey(input) ==
    LET normalized == ToLowerCase(Trim(input))
        hits == {a \in aliasMap : a[1] = normalized}
    IN  IF hits = {} THEN Null ELSE (CHOOSE a \in hits : TRUE)[2]

\* new PublicKey(address) accepts a base58 text that decodes to 32 bytes: a
\* text of 43 or 44 characters (one that starts with 1 or lies above 2^256
\* is not among the addresses of the model)
isValidSolanaAddress(address) == IsSolanaShape(address) /\ Len(address) >= 43

\* ethers.isAddress: /^(0x)?[0-9a-fA-F]{40}$/ (the addresses of the model are
\* in one case, so that no checksum is looked at)
isValidEvmAddress(address) ==
    \/ IsEvmShape(address)
    \/ Len(address) = 40 /\ \A i \in DOMAIN address : address[i] \in HexChars

isValidAddress(address, chainKey) ==
    LET normalized == normalizeChainKey(chainKey)
    IN  IF normalized = Null THEN FALSE
        ELSE IF normalized = S_solana THEN isValidSolanaAddress(address)
        ELSE isValidEvmAddress(address)

getNativeTokenSymbol(chain) ==
    LET c == ToLowerCase(chain)
    IN  IF c = S_solana THEN S_SOL
        ELSE IF c \in {S_ethereum, <<"b","a","s","e">>} THEN S_ETH
        ELSE IF c = <<"b","s","c">> THEN <<"B","N","B">>
        ELSE IF c = <<"0","g">> THEN <<"0","G">>
        ELSE IF c = <<"p","o","l","y","g","o","n">> THEN <<"M","A","T","I","C">>
        ELSE <<"t","o","k","e","n","s">>

\* config.nativeToken.symbol of a normalized chain key
nativeSymbol(chainKey) == getNativeTokenSymbol(chainKey)

(***************************************************************************)
(* Seed encryption.  A derived key is held as the pair of the PIN and the  *)
(* salt it was derived from, and a ciphertext as the pair of the plaintext *)
(* and the derived key it was made with.  CryptoJS AES (CBC, PKCS7) does   *)
(* not authenticate: decryption with another key gives other bytes, which  *)
(* the Utf8 decoding rejects (it throws), or which are no bytes at all, or *)
(* which are a text.  Which of the three it is depends on the ciphertext,  *)
(* that is on the random numbers of the encryption: the salt stands for    *)
(* them.                                                                   *)
(***************************************************************************)
Mnemonic == <<"s","e","e","d">>

\* generateSalt: the values it can return
Salts == {"a1", "b2", "c3"}

\* bytes.toString(CryptoJS.enc.Utf8) throws 'Malformed UTF-8 data'
Malformed == <<"malformed">>

\* the text that the decryption with a key other than the key of the
\* encryption gives, by the random numbers of the encryption
WrongKeyText ==
    [salt \in Salts |-> CASE salt = "a1" -> Malformed
                           [] salt = "b2" -> <<>>
                           [] OTHER -> <<"k">>]

\* the salts of the wallets rows of the accounts: one with which another
\* key gives no text and one with which it gives a text
WalletSalts == {"a1", "c3"}

deriveKey(pin, salt) == [pin |-> pin, salt |-> salt]

\* no ciphertext: the empty string
NoCiphertext == [plain |-> <<>>, key |-> deriveKey(<<>>, "")]

\* encryptSeed that returns a salt other than the salt of the key
encryptSeedOtherSalt(seedPhrase, pin, salt) ==
    IF Len(seedPhrase) = 0 \/ Len(pin) = 0
    THEN [threw |-> TRUE, encrypted |-> NoCiphertext, salt |-> ""]
    ELSE [threw |-> FALSE,
          encrypted |-> [plain |-> seedPhrase, key |-> deriveKey(pin, salt)],
          salt |-> CHOOSE t \in Salts : t # salt]

\* encryptSeed with the value that generateSalt returns in it; threw is the
\* Error 'Seed phrase and PIN are required'
encryptSeed(seedPhrase, pin, salt) ==
    IF Len(seedPhrase) = 0 \/ Len(pin) = 0
    THEN [threw |-> TRUE, encrypted |-> NoCiphertext, salt |-> ""]
    ELSE [threw |-> FALSE,
          encrypted |-> [plain |-> seedPhrase, key |-> deriveKey(pin, salt)],
          salt |-> salt]

\* CryptoJS.AES.decrypt(encryptedSeed, key) read as Utf8
decryptUtf8(encryptedSeed, key) ==
    IF encryptedSeed.key = key THEN encryptedSeed.plain
    ELSE WrongKeyText[encryptedSeed.key.salt]

decryptSeed(encryptedSeed, pin, salt) ==
    IF encryptedSeed = NoCiphertext \/ Len(pin) = 0 \/ salt = "" THEN Null
    ELSE LET seedPhrase == decryptUtf8(encryptedSeed, deriveKey(pin, salt))
         IN  IF seedPhrase = Malformed THEN Null
             ELSE IF Len(seedPhrase) = 0 \/ Len(Trim(seedPhrase)) = 0 THEN Null
             ELSE seedPhrase

\* WalletService.createUserWallets: the key is the PIN, or the user id when
\* the account has no PIN.  hasPin tells whether a pin argument was passed.
\* The result is the wallets row: encryptedSeed and salt.
createUserWallets(userId, hasPin, pin, salt) ==
    LET encryptionKey == IF hasPin /\ Len(pin) > 0 THEN pin ELSE userId
        made == encryptSeed(Mnemonic, encryptionKey, salt)
    IN  [encryptedSeed |-> made.encrypted, salt |-> made.salt]

\* the decryption key of verifyWalletPin and getWalletInstance:
\* pin || (user?.pinEnabled ? null : userId)
decryptionKey(userId, pinEnabled, hasPin, pin) ==
    IF hasPin /\ Len(pin) > 0 THEN pin
    ELSE IF pinEnabled THEN Null ELSE userId

verifyWalletPin(row, userId, pinEnabled, hasPin, pin) ==
    LET key == decryptionKey(userId, pinEnabled, hasPin, pin)
    IN  IF key = Null THEN FALSE
        ELSE decryptSeed(row.encryptedSeed, key, row.salt) # Null

\* TRUE when getWalletInstance returns a wallet, FALSE when it throws
getWalletInstance(row, userId, pinEnabled, hasPin, pin) ==
    LET key == decryptionKey(userId, pinEnabled, hasPin, pin)
    IN  IF key = Null THEN FALSE
        ELSE decryptSeed(row.encryptedSeed, key, row.salt) # Null

\* the wallet that getWalletInstance returns is made from the mnemonic of
\* the account; made from another text it is the wallet of another address
isAccountWallet(row, userId, pinEnabled, hasPin, pin) ==
    LET key == decryptionKey(userId, pinEnabled, hasPin, pin)
    IN  IF key = Null THEN FALSE
        ELSE decryptSeed(row.encryptedSeed, key, row.salt) = Mnemonic

(***************************************************************************)
(* Constants of the program and bounds of the model.                       *)
(***************************************************************************)
\* prisma.client.ts incrementFailedPinAttempts: lock at 3 failures, 5 minutes
LockThreshold == 3
LockMinutes == 5
\* env.SESSION_EXPIRY_MINUTES
SESSION_EXPIRY_MINUTES == 15
\* handleMainFlow: aiResponse.confidence < 0.4, in tenths
ConfidenceThreshold == 4

\* executions of handleIncomingMessage that can be in flight
NumHandlers == 2
\* native balance of every chain at the start, in tenths (2.0)
InitialBalance == 20
\* balance of any token that is not the native token, in tenths
TokenBalance == 20
\* the clock advances in steps of TickMinutes up to MaxTime
TickMinutes == 8
MaxTime == 16
\* chain calls that succeed in one behaviour
MaxSubmissions == 2
\* cap of the failed-attempt counter
MaxAttempts == 4

Handlers == 1..NumHandlers

NoDate == 0 - 1

ChainKeys == {a[2] : a \in aliasMap}

PinSteps == {"SEND_CRYPTO_PIN", "SWAP_TOKENS_PIN"}

\* the PIN the account was given at onboarding
UserPin == B_pin

(***************************************************************************)
(* Session contexts: functions from key to value.                          *)
(***************************************************************************)
EmptyContext == <<>>

Has(ctx, k) == k \in DOMAIN ctx

\* a spread that keeps nothing of a
SpreadSecondOnly(a, b) == b

\* { ...a, ...b }
Spread(a, b) == b @@ a

NoSession == [exists |-> FALSE, currentStep |-> "", context |-> EmptyContext, expiresAt |-> 0]

NewSession(step, ctx, t) ==
    [exists |-> TRUE, currentStep |-> step, context |-> ctx, expiresAt |-> t + SESSION_EXPIRY_MINUTES]

\* the sessions rows of other phones at the start: one that expires before
\* the first tick of the clock, one that expires at it, one that stays live
OtherPhones == {"p2", "p3", "p4"}

OtherSessions ==
    [ph \in OtherPhones |->
        [exists |-> TRUE, currentStep |-> "IDLE", context |-> EmptyContext,
         expiresAt |-> CASE ph = "p2" -> TickMinutes - 1
                         [] ph = "p3" -> TickMinutes
                         [] OTHER -> MaxTime + SESSION_EXPIRY_MINUTES]]

\* the token a lookup of the address found
TokenDetails(contractAddress) ==
    [address |-> contractAddress, symbol |-> S_USDC, chain |-> S_solana]

(***************************************************************************)
(* The state.                                                              *)
(***************************************************************************)
VARIABLES
    now,           \* the clock, in minutes
    user,          \* users row: pinEnabled, failedPinAttempts, pinLockedUntil
    wallet,        \* wallets row: encryptedSeed, salt
    session,       \* sessions row of the phone (phone is unique)
    balance,       \* native balance on each chain, in tenths
    transactions,  \* transactions table, in insertion order
    h,             \* executions of handleIncomingMessage
    bg,            \* the resetSession that handleSimpleIntent does not await
    guard,         \* a call of incrementFailedPinAttempts between its updates
    nsub,          \* number of hashes the chains have given out
    lastSub,       \* the chain call of an execution in flight, and its state
    pinSubs,       \* chain calls made at the PIN step by executions in flight
    wrongPins,     \* successive PIN-step messages whose PIN did not verify
    scn,           \* progress of the conversation send/solana/.../5296
    ret,           \* the last call of a service made by a caller, and its result
    onb,           \* users row: onboardingStatus, onboardingStep and pinHash
    others         \* sessions rows of other phones

vars == <<now, user, wallet, session, balance, transactions, h, bg, guard,
          nsub, lastSub, pinSubs, wrongPins, scn, ret, onb, others>>

NoUpdate == [currentStep |-> "", context |-> EmptyContext]

NoTx == [kind |-> "", chainKey |-> <<>>, toAddress |-> <<>>, amount |-> 0,
         hasPin |-> FALSE, pin |-> <<>>, fromToken |-> <<>>, toToken |-> <<>>,
         hash |-> 0]

\* an execution that is not running
IdleHandler ==
    [pc |-> "idle", msg |-> <<>>, step |-> "", ctx |-> EmptyContext,
     where |-> "", call |-> "", cont |-> "", reply |-> "", err |-> "",
     ent |-> EmptyContext, upd |-> NoUpdate, rd |-> NoUpdate, tx |-> NoTx,
     verified |-> "none", chain |-> "none", text |-> ""]

NoSubmission ==
    [made |-> FALSE, step |-> "", kind |-> "", locked |-> FALSE,
     verified |-> FALSE, hasPin |-> FALSE, pin |-> <<>>]

ScenarioOff == 0 - 1

\* no call of a service has returned to a caller yet
NoReturn == [op |-> "", value |-> "", params |-> NoUpdate, before |-> ""]

\* bcrypt.hash(pin, SALT_ROUNDS): one-way, the text is not read back from it
hashPin(pin) == [bcrypt |-> pin]

\* users.pin_hash is null
NoHash == [bcrypt |-> <<>>]

Scenario == <<B_send, B_solana, B_solAddr, B_half, B_confirm, B_pin>>

Init ==
    /\ now = 0
    /\ \E pinEnabled \in BOOLEAN, salt \in WalletSalts :
          /\ user = [pinEnabled |-> pinEnabled, failedPinAttempts |-> 0, pinLockedUntil |-> NoDate]
          /\ wallet = createUserWallets(UserId, pinEnabled, UserPin, salt)
    /\ session = NewSession("IDLE", EmptyContext, 0)
    /\ balance = [c \in ChainKeys |-> InitialBalance]
    /\ transactions = <<>>
    /\ h = [p \in Handlers |-> IdleHandler]
    /\ bg = "none"
    /\ guard = "none"
    /\ nsub = 0
    /\ lastSub = NoSubmission
    /\ pinSubs = 0
    /\ wrongPins = 0
    /\ scn = [idx |-> 0, steps |-> <<>>]
    /\ ret = NoReturn
    /\ onb = [status |-> "COMPLETED", step |-> "COMPLETED",
              pinHash |-> IF user.pinEnabled THEN hashPin(UserPin) ELSE NoHash]
    /\ others = OtherSessions

(***************************************************************************)
(* Control flow of one execution.  An execution record holds the position  *)
(* (pc) at the awaited operation that comes next, the try block it is in   *)
(* (where) and what follows the awaited operation (cont).  The operators   *)
(* below are the synchronous parts of the handlers: each takes the record  *)
(* and gives the record at the next awaited operation.                     *)
(***************************************************************************)
\* the methods of the session service that a caller calls by itself; an
\* execution record with one of them as "where" is such a call
ServiceCalls == {"createSession", "resetSession", "getOrCreateSession", "getSession"}

\* handleMainFlow has returned its text (or handleIncomingMessage has caught);
\* a call of the session service has returned or thrown
Done(hr, reply) ==
    [hr EXCEPT !.pc = "done", !.reply = reply, !.call = "", !.cont = "",
               !.ent = EmptyContext,
               !.upd = IF hr.where \in ServiceCalls THEN hr.upd ELSE NoUpdate,
               !.rd = NoUpdate, !.tx = NoTx]

\* sessionService.resetSession: deleteSession, then createSession(IDLE, {})
resetSession(hr, cont, reply) ==
    [hr EXCEPT !.pc = "resetDelete", !.call = "reset", !.cont = cont, !.reply = reply]

\* sessionService.updateSession: getSession, then prisma.session.update
updateSession(hr, step, context, cont, reply) ==
    [hr EXCEPT !.pc = "getSession", !.call = "update",
               !.upd = [currentStep |-> step, context |-> context],
               !.cont = cont, !.reply = reply]

\* sessionService.getOrCreateSession(phone, IDLE, userId)
getOrCreateSession(hr, cont) ==
    [hr EXCEPT !.pc = "getSession", !.call = "getOrCreate", !.cont = cont]

\* an exception reaches the nearest enclosing catch
Catch(e) ==
    LET hr == e
    IN  CASE hr.where = "pin" ->
                \* handleSendPinStep / handleSwapPinStep catch
                resetSession([e EXCEPT !.where = "flow"], "done", "transactionFailed")
          [] hr.where = "flow" ->
                \* handleFlowStep catch
                resetSession([e EXCEPT !.where = "incoming"], "done", "flowError")
          [] hr.where = "swapFrom" ->
                \* handleSwapFromTokenStep catch: the update is tried once more
                updateSession([e EXCEPT !.where = "flow"], hr.upd.currentStep,
                              hr.upd.context, "done", "askSwapAmount")
          [] hr.where = "sendInit" -> Done(e, "sendInitError")
          [] hr.where = "swapInit" -> Done(e, "swapInitError")
          [] hr.where = "lookup" -> Done(e, "lookupError")
          [] hr.where = "main" -> Done(e, "mainFlowError")
          [] hr.where \in ServiceCalls -> Done(e, "threw")
          [] OTHER ->
                \* handleIncomingMessage catch: getUserFriendlyErrorMessage
                Done(e, "friendlyError")

\* an exception whose message is a text written in the code is thrown
Throw(hr, error) == Catch([hr EXCEPT !.err = error, !.text = "fixed"])

\* an exception of the chain SDK, the Prisma client or a lookup API is
\* thrown; the catch blocks of the transaction service wrap it as
\* new TransactionError(error.message), which keeps its message
ThrowRaw(hr, error) == Catch([hr EXCEPT !.err = error, !.text = "raw"])

\* the subclasses of AppError
AppErrors == {"ValidationError", "NotFoundError", "InsufficientBalanceError",
              "InvalidPinError", "TransactionError"}

\* errors.ts getUserFriendlyErrorMessage: error.message for an AppError, a
\* fixed text otherwise (no exception of the model has ECONNREFUSED,
\* ETIMEDOUT or ENOTFOUND in its message)
getUserFriendlyErrorMessage(error) == IF error \in AppErrors THEN "message" ELSE "fixed"

\* the reply of the execution has error.message in it: the catch of
\* handleSendPinStep / handleSwapPinStep, and getUserFriendlyErrorMessage in
\* the catch of handleIncomingMessage
ReplyHasErrorMessage(hr) ==
    \/ hr.reply = "transactionFailed"
    \/ hr.reply = "friendlyError" /\ getUserFriendlyErrorMessage(hr.err) = "message"

\* what follows an awaited session operation or transaction
Resume(hr) ==
    CASE hr.cont = "handleTokenLookup" ->
            [hr EXCEPT !.pc = "handleTokenLookup", !.where = "lookup", !.cont = ""]
      [] hr.cont = "sendSummary" ->
            \* address.substring(...) of handleSendAmountStep
            IF Has(hr.ctx, "address") THEN Done(hr, hr.reply) ELSE Throw(hr, "TypeError")
      [] hr.cont = "swapSummary" ->
            \* context.chain.toUpperCase() of handleSwapAmountStep
            IF Has(hr.ctx, "chain") THEN Done(hr, hr.reply) ELSE Throw(hr, "TypeError")
      [] hr.cont = "transaction" ->
            \* the transaction service has returned the record
            IF hr.where = "pin"
            THEN resetSession(hr, "done", "transactionSent")
            ELSE Done(hr, "transactionSent")
      [] OTHER -> Done(hr, hr.reply)

\* the synchronous head of sendNative / sendToken, up to verifyWalletPin
executeSendTransaction(hr, params) ==
    LET kind == IF Has(params, "tokenAddress") THEN "token" ELSE "native"
        normalized == IF Has(params, "chain") THEN normalizeChainKey(params.chain) ELSE Null
    IN  IF normalized = Null THEN Throw(hr, "Error")
        ELSE IF ~Has(params, "address") \/ ~isValidAddress(params.address, normalized)
        THEN Throw(hr, "ValidationError")
        ELSE IF kind = "token" /\ ~isValidAddress(params.tokenAddress, normalized)
        THEN Throw(hr, "ValidationError")
        ELSE IF ~Has(params, "amount") \/ ~isValidAmount(params.amount)
        THEN Throw(hr, "ValidationError")
        ELSE [hr EXCEPT !.pc = "verifyWalletPin", !.cont = "transaction",
                        !.tx = [kind |-> kind, chainKey |-> normalized,
                                toAddress |-> params.address, amount |-> params.amount,
                                hasPin |-> Has(params, "pin"),
                                pin |-> IF Has(params, "pin") THEN params.pin ELSE <<>>,
                                fromToken |-> IF kind = "token" THEN params.tokenAddress ELSE S_native,
                                toToken |-> <<>>, hash |-> 0]]

\* the synchronous head of swap, up to verifyWalletPin
executeSwapTransaction(hr, params) ==
    LET normalized == IF Has(params, "chain") THEN normalizeChainKey(params.chain) ELSE Null
        fromToken == IF Has(params, "fromToken") THEN params.fromToken ELSE Null
        toToken == IF Has(params, "toToken") THEN params.toToken ELSE Null
    IN  IF normalized = Null THEN Throw(hr, "Error")
        ELSE IF ~Has(params, "amount") \/ ~isValidAmount(params.amount)
        THEN Throw(hr, "ValidationError")
        ELSE [hr EXCEPT !.pc = "verifyWalletPin", !.cont = "transaction",
                        !.tx = [kind |-> "swap", chainKey |-> normalized,
                                toAddress |-> <<>>, amount |-> params.amount,
                                hasPin |-> Has(params, "pin"),
                                pin |-> IF Has(params, "pin") THEN params.pin ELSE <<>>,
                                fromToken |-> IF fromToken = S_SOL THEN S_native ELSE fromToken,
                                toToken |-> toToken, hash |-> 0]]

(***************************************************************************)
(* The flow step handlers.                                                 *)
(***************************************************************************)
handleSendChainStep(hr) ==
    LET chain == Trim(ToLowerCase(hr.msg))
    IN  IF chain \notin sendValidChains THEN Done(hr, "invalidChain")
        ELSE updateSession(hr, "SEND_CRYPTO_ADDRESS", Spread(hr.ctx, "chain" :> chain),
                           "done", "askAddress")

handleSendAddressStep(hr) ==
    LET address == Trim(hr.msg)
    IN  IF Len(address) < 20 THEN Done(hr, "invalidAddress")
        ELSE updateSession(hr, "SEND_CRYPTO_AMOUNT", Spread(hr.ctx, "address" :> address),
                           "done", "askAmount")

handleSendAmountStep(hr) ==
    LET amount == parseFloat(Trim(hr.msg))
    IN  IF amount = NaN \/ amount <= 0 THEN Done(hr, "invalidAmount")
        ELSE updateSession(hr, "SEND_CRYPTO_CONFIRM", Spread(hr.ctx, "amount" :> amount),
                           "sendSummary", "sendSummary")

handleSendConfirmStep(hr) ==
    LET response == Trim(ToLowerCase(hr.msg))
    IN  IF response = S_cancel THEN resetSession(hr, "done", "transactionCancelled")
        ELSE IF response # S_confirm /\ response # S_yes THEN Done(hr, "askConfirm")
        ELSE updateSession(hr, "SEND_CRYPTO_PIN", hr.ctx, "done", "askPin")

handleSendPinStep(hr) ==
    LET pin == Trim(hr.msg)
    IN  executeSendTransaction([hr EXCEPT !.where = "pin"], Spread(hr.ctx, "pin" :> pin))

handleSwapChainStep(hr) ==
    LET chain == Trim(ToLowerCase(hr.msg))
    IN  IF chain \notin swapValidChains THEN Done(hr, "invalidChain")
        ELSE updateSession(hr, "SWAP_TOKENS_FROM", Spread(hr.ctx, "chain" :> chain),
                           "done", "askFromToken")

\* walletService.getWalletBalance(userId, chain).nativeBalance.formatted, or
\* NaN when the call throws (the handlers log the error and go on)
nativeBalanceOf(bal, chain) ==
    IF normalizeChainKey(chain) = Null THEN NaN ELSE bal[normalizeChainKey(chain)]

handleSwapFromTokenStep(hr, bal) ==
    LET trimmed == Trim(hr.msg)
        chain == IF Has(hr.ctx, "chain") THEN hr.ctx.chain ELSE S_solana
        nativeToken == getNativeTokenSymbol(chain)
        amount == parseFloat(trimmed)
        availableBalance == nativeBalanceOf(bal, chain)
    IN  IF amount # NaN /\ amount > 0
        THEN IF availableBalance # NaN /\ amount > availableBalance
             THEN Done(hr, "insufficientBalance")
             ELSE updateSession(hr, "SWAP_TOKENS_CONFIRM",
                                Spread(hr.ctx, ("fromToken" :> nativeToken) @@ ("amount" :> amount)),
                                "done", "swapSummary")
        ELSE updateSession([hr EXCEPT !.where = "swapFrom"], "SWAP_TOKENS_AMOUNT",
                           Spread(hr.ctx, "fromToken" :> ToUpperCase(trimmed)),
                           "done", "askSwapAmount")

handleSwapToTokenStep(hr) ==
    LET toToken == ToUpperCase(Trim(hr.msg))
    IN  updateSession(hr, "SWAP_TOKENS_AMOUNT", Spread(hr.ctx, "toToken" :> toToken),
                      "done", "askSwapAmount")

handleSwapAmountStep(hr, bal) ==
    LET amount == parseFloat(Trim(hr.msg))
        chain == IF Has(hr.ctx, "chain") THEN hr.ctx.chain ELSE S_solana
        availableBalance == nativeBalanceOf(bal, chain)
        isNative == /\ availableBalance # NaN
                    /\ Has(hr.ctx, "fromToken")
                    /\ hr.ctx.fromToken = nativeSymbol(normalizeChainKey(chain))
    IN  IF amount = NaN \/ amount <= 0 THEN Done(hr, "invalidAmount")
        ELSE IF isNative /\ amount > availableBalance THEN Done(hr, "insufficientBalance")
        ELSE updateSession(hr, "SWAP_TOKENS_CONFIRM", Spread(hr.ctx, "amount" :> amount),
                           "swapSummary", "swapSummary")

handleSwapConfirmStep(hr) ==
    LET response == Trim(ToLowerCase(hr.msg))
    IN  IF response = S_cancel THEN resetSession(hr, "done", "swapCancelled")
        ELSE IF response # S_confirm /\ response # S_yes THEN Done(hr, "askConfirm")
        ELSE updateSession(hr, "SWAP_TOKENS_PIN", hr.ctx, "done", "askPin")

handleSwapPinStep(hr) ==
    LET pin == Trim(hr.msg)
    IN  executeSwapTransaction([hr EXCEPT !.where = "pin"], Spread(hr.ctx, "pin" :> pin))

\* the switch of handleFlowStep; its catch is in Throw
handleFlowStep(hr0, bal) ==
    LET hr == [hr0 EXCEPT !.where = "flow"]
    IN  CASE hr.step = "SEND_CRYPTO_CHAIN" -> handleSendChainStep(hr)
          [] hr.step = "SEND_CRYPTO_ADDRESS" -> handleSendAddressStep(hr)
          [] hr.step = "SEND_CRYPTO_AMOUNT" -> handleSendAmountStep(hr)
          [] hr.step = "SEND_CRYPTO_CONFIRM" -> handleSendConfirmStep(hr)
          [] hr.step = "SEND_CRYPTO_PIN" -> handleSendPinStep(hr)
          [] hr.step = "SWAP_TOKENS_CHAIN" -> handleSwapChainStep(hr)
          [] hr.step = "SWAP_TOKENS_FROM" -> handleSwapFromTokenStep(hr, bal)
          [] hr.step = "SWAP_TOKENS_TO" -> handleSwapToTokenStep(hr)
          [] hr.step = "SWAP_TOKENS_AMOUNT" -> handleSwapAmountStep(hr, bal)
          [] hr.step = "SWAP_TOKENS_CONFIRM" -> handleSwapConfirmStep(hr)
          [] hr.step = "SWAP_TOKENS_PIN" -> handleSwapPinStep(hr)
          [] OTHER -> resetSession(hr, "done", "unknownStep")

\* handleSendCrypto, reached from routeByIntent
handleSendCrypto(hr0, entities) ==
    LET hr == [hr0 EXCEPT !.where = "sendInit"]
    IN  IF Has(entities, "chain") /\ Has(entities, "address") /\ Has(entities, "amount")
        THEN executeSendTransaction(hr, entities)
        ELSE updateSession(hr, "SEND_CRYPTO_CHAIN", entities, "done",
                           IF ~Has(entities, "chain") THEN "askChain"
                           ELSE IF ~Has(entities, "address") THEN "askAddress"
                           ELSE "askAmount")

\* handleSwapTokens starts with its own getOrCreateSession
handleSwapTokens(hr, entities) ==
    getOrCreateSession([hr EXCEPT !.where = "swapInit", !.ent = entities], "handleSwapTokens")

\* routeByIntent: the intents other than send and swap only read
routeByIntent(hr, intent, entities) ==
    CASE intent = "send_crypto" -> handleSendCrypto(hr, entities)
      [] intent = "swap_tokens" -> handleSwapTokens(hr, entities)
      [] OTHER -> Done(hr, intent)

(***************************************************************************)
(* The session service, one action per awaited database operation.         *)
(***************************************************************************)
\* getSession has its result: s.exists is FALSE for null
GotSession(hr, s) ==
    IF hr.call = "get"
    THEN Done(hr, IF s.exists THEN "session" ELSE "null")
    ELSE IF hr.call = "update"
    THEN IF ~s.exists THEN Throw(hr, "NotFoundError")
         ELSE [hr EXCEPT !.pc = "update",
                         !.rd = [currentStep |-> s.currentStep, context |-> s.context]]
    ELSE IF ~s.exists THEN [hr EXCEPT !.pc = "createDelete"]
         ELSE [hr EXCEPT !.pc = hr.cont, !.cont = "", !.step = s.currentStep, !.ctx = s.context]

\* a getSession that does not look at expiresAt
getSessionNoExpiry(p) ==
    /\ h[p].pc = "getSession"
    /\ h' = [h EXCEPT ![p] =
                IF ~session.exists THEN GotSession(h[p], NoSession)
                ELSE GotSession(h[p], session)]
    /\ UNCHANGED <<now, user, wallet, session, balance, transactions, bg, guard,
                   nsub, lastSub, pinSubs, wrongPins, scn, ret, onb, others>>

\* getSession: prisma.session.findUnique and the test of expiresAt
getSession(p) ==
    /\ h[p].pc = "getSession"
    /\ h' = [h EXCEPT ![p] =
                IF ~session.exists THEN GotSession(h[p], NoSession)
                ELSE IF session.expiresAt < now THEN [h[p] EXCEPT !.pc = "expiredDelete"]
                ELSE GotSession(h[p], session)]
    /\ UNCHANGED <<now, user, wallet, session, balance, transactions, bg, guard,
                   nsub, lastSub, pinSubs, wrongPins, scn,
                   ret, onb, others>>

\* a deleteSession that createSession leaves out
deleteSessionNotInCreate(p) ==
    /\ h[p].pc \in {"expiredDelete", "resetDelete", "createDelete"}
    /\ session' = IF h[p].pc = "createDelete" THEN session ELSE NoSession
    /\ h' = [h EXCEPT ![p] =
                CASE h[p].pc = "expiredDelete" -> GotSession(h[p], NoSession)
                  [] h[p].pc = "resetDelete" -> [h[p] EXCEPT !.pc = "createDelete"]
                  [] OTHER -> [h[p] EXCEPT !.pc = "createInsert"]]
    /\ UNCHANGED <<now, user, wallet, balance, transactions, bg, guard,
                   nsub, lastSub, pinSubs, wrongPins, scn, ret, onb, others>>

\* deleteSession: prisma.session.deleteMany, called by getSession for an
\* expired session, by resetSession and by createSession
deleteSession(p) ==
    /\ h[p].pc \in {"expiredDelete", "resetDelete", "createDelete"}
    /\ session' = NoSession
    /\ h' = [h EXCEPT ![p] =
                CASE h[p].pc = "expiredDelete" -> GotSession(h[p], NoSession)
                  [] h[p].pc = "resetDelete" -> [h[p] EXCEPT !.pc = "createDelete"]
                  [] OTHER -> [h[p] EXCEPT !.pc = "createInsert"]]
    /\ UNCHANGED <<now, user, wallet, balance, transactions, bg, guard,
                   nsub, lastSub, pinSubs, wrongPins, scn,
                   ret, onb, others>>

\* createSession: prisma.session.create of the session of the call (IDLE with
\* an empty context for resetSession and getOrCreateSession); sessions.phone
\* is unique, so the insert throws when a row is there
createInsert(p) ==
    /\ h[p].pc = "createInsert"
    /\ IF session.exists
       THEN /\ h' = [h EXCEPT ![p] = ThrowRaw(h[p], "UniqueConstraint")]
            /\ session' = session
       ELSE /\ session' = IF h[p].call = "create"
                           THEN NewSession(h[p].upd.currentStep, h[p].upd.context, now)
                           ELSE NewSession("IDLE", EmptyContext, now)
            /\ h' = [h EXCEPT ![p] =
                        IF h[p].call = "getOrCreate"
                        THEN [h[p] EXCEPT !.pc = h[p].cont, !.cont = "",
                                          !.step = "IDLE", !.ctx = EmptyContext]
                        ELSE Resume(h[p])]
    /\ UNCHANGED <<now, user, wallet, balance, transactions, bg, guard,
                   nsub, lastSub, pinSubs, wrongPins, scn,
                   ret, onb, others>>

\* updateSession: prisma.session.update with the context read by getSession
\* merged with the context of the call
updateWrite(p) ==
    /\ h[p].pc = "update"
    /\ IF ~session.exists
       THEN /\ h' = [h EXCEPT ![p] = ThrowRaw(h[p], "RecordNotFound")]
            /\ UNCHANGED <<session, pinSubs>>
       ELSE /\ session' = [exists |-> TRUE,
                           \* params.currentStep ?? session.currentStep
                           currentStep |-> IF h[p].upd.currentStep = ""
                                           THEN h[p].rd.currentStep
                                           ELSE h[p].upd.currentStep,
                           context |-> Spread(h[p].rd.context, h[p].upd.context),
                           expiresAt |-> now + SESSION_EXPIRY_MINUTES]
            /\ pinSubs' = IF h[p].upd.currentStep \in PinSteps THEN 0 ELSE pinSubs
            /\ h' = [h EXCEPT ![p] = Resume([h[p] EXCEPT !.upd = NoUpdate, !.rd = NoUpdate])]
    /\ UNCHANGED <<now, user, wallet, balance, transactions, bg, guard,
                   nsub, lastSub, wrongPins, scn,
                   ret, onb, others>>

\* the resetSession that handleSimpleIntent starts and does not await
bgDeleteSession ==
    /\ bg \in {"resetDelete", "createDelete"}
    /\ session' = NoSession
    /\ bg' = IF bg = "resetDelete" THEN "createDelete" ELSE "createInsert"
    /\ UNCHANGED <<now, user, wallet, balance, transactions, h, guard,
                   nsub, lastSub, pinSubs, wrongPins, scn,
                   ret, onb, others>>

bgCreateInsert ==
    /\ bg = "createInsert"
    /\ session' = IF session.exists THEN session ELSE NewSession("IDLE", EmptyContext, now)
    /\ bg' = "none"
    /\ UNCHANGED <<now, user, wallet, balance, transactions, h, guard,
                   nsub, lastSub, pinSubs, wrongPins, scn,
                   ret, onb, others>>

(***************************************************************************)
(* The controller.                                                         *)
(***************************************************************************)
\* handleIncomingMessage up to the getOrCreateSession of handleMainFlow:
\* sanitizeInput, touchUser, isUserOnboarded (the account is onboarded) and
\* the user lookup.  Nothing in the code makes an execution wait for another.
handleIncomingMessage(p, body) ==
    /\ h[p].pc = "idle"
    /\ h' = [h EXCEPT ![p] =
                getOrCreateSession([IdleHandler EXCEPT !.msg = sanitizeInput(body),
                                                       !.where = "main"],
                                   "handleMainFlow")]
    /\ scn' = IF /\ scn.idx # ScenarioOff
                 /\ scn.idx < Len(Scenario)
                 /\ Len(scn.steps) = scn.idx
                 /\ body = Scenario[scn.idx + 1]
                 /\ user.pinEnabled
              THEN [scn EXCEPT !.idx = scn.idx + 1]
              ELSE [idx |-> ScenarioOff, steps |-> <<>>]
    /\ UNCHANGED <<now, user, wallet, session, balance, transactions, bg, guard,
                   nsub, lastSub, pinSubs, wrongPins,
                   ret, onb, others>>

\* handleMainFlow after getOrCreateSession, up to the next awaited operation
handleMainFlow(p) ==
    /\ h[p].pc = "handleMainFlow"
    /\ LET hr == h[p]
           message == hr.msg
           simpleIntent == detectSimpleIntent(message)
           trimmedMessage == Trim(message)
       IN  IF isCasualMessage(message)
           THEN /\ h' = [h EXCEPT ![p] = IF hr.step # "IDLE"
                                          THEN resetSession(hr, "done", "casual")
                                          ELSE Done(hr, "casual")]
                /\ bg' = bg
           ELSE IF simpleIntent # "null"
           THEN IF /\ simpleIntent = "swap_tokens"
                   /\ hr.step = "IDLE"
                   /\ Has(hr.ctx, "lastViewedToken")
                THEN /\ h' = [h EXCEPT ![p] = handleSwapTokens(hr, EmptyContext)]
                     /\ bg' = bg
                ELSE \* handleSimpleIntent
                     IF simpleIntent = "cancel"
                     THEN /\ bg = "none"
                          /\ bg' = "resetDelete"
                          /\ h' = [h EXCEPT ![p] = Done(hr, "cancelled")]
                     ELSE /\ h' = [h EXCEPT ![p] = Done(hr, simpleIntent)]
                          /\ bg' = bg
           ELSE IF isContractAddress(trimmedMessage)
           THEN /\ h' = [h EXCEPT ![p] =
                            IF hr.step # "IDLE"
                            THEN resetSession(hr, "handleTokenLookup", "")
                            ELSE Resume([hr EXCEPT !.cont = "handleTokenLookup"])]
                /\ bg' = bg
           ELSE IF hr.step # "IDLE"
           THEN /\ h' = [h EXCEPT ![p] = handleFlowStep(hr, balance)]
                /\ bg' = bg
           ELSE /\ h' = [h EXCEPT ![p] = [hr EXCEPT !.pc = "analyzeMessage"]]
                /\ bg' = bg
    /\ UNCHANGED <<now, user, wallet, session, balance, transactions, guard,
                   nsub, lastSub, pinSubs, wrongPins, scn,
                   ret, onb, others>>

\* entities the language model can give back
SendEntities == ("chain" :> S_solana) @@ ("address" :> B_solAddr) @@ ("amount" :> 5)

TokenSendEntities == SendEntities @@ ("tokenAddress" :> B_solAddr)

SwapEntities ==
    ("chain" :> S_solana) @@ ("fromToken" :> S_SOL) @@ ("toToken" :> B_solAddr) @@ ("amount" :> 5)

\* results of aiService.analyzeMessage, which never throws: an intent, its
\* entities and a confidence in tenths
AiResponses ==
    << [intent |-> "unknown", entities |-> EmptyContext, confidence |-> 5],
       [intent |-> "send_crypto", entities |-> EmptyContext, confidence |-> 9],
       [intent |-> "send_crypto", entities |-> SendEntities, confidence |-> 9],
       [intent |-> "send_crypto", entities |-> SendEntities, confidence |-> 3],
       [intent |-> "send_crypto", entities |-> TokenSendEntities, confidence |-> 9],
       [intent |-> "swap_tokens", entities |-> EmptyContext, confidence |-> 9],
       [intent |-> "swap_tokens", entities |-> SwapEntities, confidence |-> 9] >>

\* the answer of the language model, then routeByIntent
analyzeMessage(p) ==
    /\ h[p].pc = "analyzeMessage"
    /\ \E i \in DOMAIN AiResponses :
          LET aiResponse == AiResponses[i]
          IN  h' = [h EXCEPT ![p] =
                       IF aiResponse.confidence < ConfidenceThreshold \/ aiResponse.intent = "unknown"
                       THEN Done(h[p], "aiResponse")
                       ELSE routeByIntent(h[p], aiResponse.intent, aiResponse.entities)]
    /\ UNCHANGED <<now, user, wallet, session, balance, transactions, bg, guard,
                   nsub, lastSub, pinSubs, wrongPins, scn,
                   ret, onb, others>>

\* handleSwapTokens after its getOrCreateSession
handleSwapTokensBody(p) ==
    /\ h[p].pc = "handleSwapTokens"
    /\ LET hr == h[p]
           entities == hr.ent
           lastViewedToken == hr.ctx.lastViewedToken
       IN  h' = [h EXCEPT ![p] =
                   IF /\ Has(hr.ctx, "lastViewedToken")
                      /\ ~Has(entities, "fromToken")
                      /\ ~Has(entities, "toToken")
                   THEN updateSession(hr, "SWAP_TOKENS_FROM",
                            Spread(hr.ctx, ("chain" :> lastViewedToken.chain)
                                           @@ ("toToken" :> lastViewedToken.symbol)
                                           @@ ("toTokenAddress" :> lastViewedToken.address)
                                           @@ ("toTokenSymbol" :> lastViewedToken.symbol)
                                           @@ ("lastViewedToken" :> lastViewedToken)),
                            "done", "askSwapAmount")
                   ELSE IF /\ Has(entities, "chain") /\ Has(entities, "fromToken")
                           /\ Has(entities, "toToken") /\ Has(entities, "amount")
                   THEN executeSwapTransaction(hr, entities)
                   ELSE updateSession(hr, "SWAP_TOKENS_CHAIN", Spread(hr.ctx, entities),
                            "done", "askSwapChain")]
    /\ UNCHANGED <<now, user, wallet, session, balance, transactions, bg, guard,
                   nsub, lastSub, pinSubs, wrongPins, scn,
                   ret, onb, others>>

\* handleTokenLookup: the lookups of the token, then updateSession
handleTokenLookup(p) ==
    /\ h[p].pc = "handleTokenLookup"
    /\ \E outcome \in {"found", "notFound", "error"} :
          h' = [h EXCEPT ![p] =
                   CASE outcome = "found" ->
                           updateSession(h[p], "IDLE",
                                         "lastViewedToken" :> TokenDetails(Trim(h[p].msg)),
                                         "done", "tokenDetails")
                     [] outcome = "notFound" -> Done(h[p], "tokenNotFound")
                     [] OTHER -> ThrowRaw(h[p], "Error")]
    /\ UNCHANGED <<now, user, wallet, session, balance, transactions, bg, guard,
                   nsub, lastSub, pinSubs, wrongPins, scn,
                   ret, onb, others>>

\* the end of handleIncomingMessage: the text is sent, the webhook is logged;
\* the return of a call of the session service to its caller
Finish(p) ==
    /\ h[p].pc = "done"
    /\ h' = [h EXCEPT ![p] = IdleHandler]
    /\ scn' = IF scn.idx # ScenarioOff /\ Len(scn.steps) < scn.idx
              THEN [scn EXCEPT !.steps = Append(scn.steps,
                        IF session.exists THEN session.currentStep ELSE "none")]
              ELSE scn
    /\ lastSub' = NoSubmission
    /\ pinSubs' = IF \A q \in Handlers \ {p} : h[q].pc = "idle" THEN 0 ELSE pinSubs
    /\ wrongPins' = IF h[p].step \in PinSteps /\ h[p].verified = "fail" THEN wrongPins ELSE 0
    /\ ret' = IF h[p].where \in ServiceCalls
              THEN [op |-> h[p].where,
                    value |-> IF h[p].err # "" THEN h[p].err ELSE h[p].reply,
                    params |-> h[p].upd,
                    before |-> ret.op]
              ELSE ret
    /\ UNCHANGED <<now, user, wallet, session, balance, transactions, bg, guard, nsub,
                   onb, others>>

(***************************************************************************)
(* The transaction service: sendNative, sendToken and swap.                *)
(***************************************************************************)
Min(a, b) == IF a < b THEN a ELSE b

\* "await walletService.verifyWalletPin(userId, pin)" and the throw of
\* InvalidPinError.  No call of isPinLocked, incrementFailedPinAttempts or
\* resetFailedPinAttempts is made here or anywhere else in the service.
txVerifyPin(p) ==
    /\ h[p].pc = "verifyWalletPin"
    /\ LET hr == h[p]
           isPinValid == verifyWalletPin(wallet, UserId, user.pinEnabled,
                                         hr.tx.hasPin, hr.tx.pin)
       IN  /\ h' = [h EXCEPT ![p] =
                       IF isPinValid
                       THEN [hr EXCEPT !.pc = "prepare", !.verified = "ok"]
                       ELSE Throw([hr EXCEPT !.verified = "fail"], "InvalidPinError")]
           /\ wrongPins' = IF hr.step \in PinSteps /\ hr.where = "pin"
                           THEN IF isPinValid THEN 0 ELSE Min(wrongPins + 1, LockThreshold)
                           ELSE wrongPins
    /\ UNCHANGED <<now, user, wallet, session, balance, transactions, bg, guard,
                   nsub, lastSub, pinSubs, scn,
                   ret, onb, others>>

\* the balance the service compares the amount with, or NaN when reading it
\* throws (a token that is not an address of the chain)
spendable(tx, bal) ==
    IF tx.fromToken = S_native THEN bal[tx.chainKey]
    ELSE IF isValidAddress(tx.fromToken, tx.chainKey) THEN TokenBalance
    ELSE NaN

\* between verifyWalletPin and the chain call: getWalletBalance,
\* getWalletInstance, the balance test and the arguments of the chain call
txPrepare(p) ==
    /\ h[p].pc = "prepare"
    /\ LET hr == h[p]
           tx == hr.tx
           instance == getWalletInstance(wallet, UserId, user.pinEnabled,
                                         tx.hasPin, tx.pin)
           available == spendable(tx, balance)
       IN  h' = [h EXCEPT ![p] =
                   IF tx.kind = "native" /\ available < tx.amount
                   THEN Throw(hr, "InsufficientBalanceError")
                   ELSE IF ~instance THEN Throw(hr, "ValidationError")
                   ELSE IF available = NaN THEN ThrowRaw(hr, "TransactionError")
                   ELSE IF available < tx.amount THEN Throw(hr, "InsufficientBalanceError")
                   ELSE IF /\ tx.kind = "swap"
                           /\ tx.chainKey = S_solana
                           /\ ~isValidSolanaAddress(tx.toToken)
                        THEN \* new PublicKey(toToken.address) throws
                             ThrowRaw(hr, "TransactionError")
                   ELSE [hr EXCEPT !.pc = "submit"]]
    /\ UNCHANGED <<now, user, wallet, session, balance, transactions, bg, guard,
                   nsub, lastSub, pinSubs, wrongPins, scn,
                   ret, onb, others>>

\* transferNative / transferToken / swap of the chain wallet: the chain call.
\* It succeeds with a new hash, returns a failure, or throws.
txSubmit(p) ==
    /\ h[p].pc = "submit"
    /\ LET hr == h[p]
           tx == hr.tx
       IN  /\ lastSub' = [made |-> TRUE, step |-> hr.step, kind |-> tx.kind,
                          locked |-> user.pinLockedUntil # NoDate /\ user.pinLockedUntil > now,
                          verified |-> hr.verified = "ok",
                          hasPin |-> tx.hasPin, pin |-> tx.pin]
           /\ pinSubs' = IF hr.where = "pin" THEN pinSubs + 1 ELSE pinSubs
           /\ \E outcome \in {"success", "failure", "throw"} :
                 IF outcome = "success"
                 THEN /\ nsub < MaxSubmissions
                      /\ isAccountWallet(wallet, UserId, user.pinEnabled, tx.hasPin, tx.pin)
                      /\ tx.fromToken = S_native => balance[tx.chainKey] >= tx.amount
                      /\ nsub' = nsub + 1
                      /\ balance' = IF tx.fromToken = S_native
                                    THEN [balance EXCEPT ![tx.chainKey] = @ - tx.amount]
                                    ELSE balance
                      /\ h' = [h EXCEPT ![p] = [hr EXCEPT !.pc = "record", !.chain = outcome,
                                                          !.tx.hash = nsub + 1]]
                 ELSE /\ balance' = balance
                      /\ nsub' = nsub
                      /\ h' = [h EXCEPT ![p] =
                                  IF outcome = "throw"
                                  THEN ThrowRaw([hr EXCEPT !.chain = outcome], "TransactionError")
                                  ELSE Throw([hr EXCEPT !.chain = outcome], "TransactionError")]
    /\ UNCHANGED <<now, user, wallet, session, transactions, bg, guard, wrongPins, scn,
                   ret, onb, others>>

\* a row with this hash is in the table
HashRecorded(rows, hash) == \E i \in DOMAIN rows : rows[i].hash = hash

\* a createTransaction on a table without the unique index on hash
createTransactionNoIndex(rows, type, amount, hash) ==
    [threw |-> FALSE,
     rows |-> Append(rows, [type |-> type, amount |-> amount,
                            status |-> "PENDING", hash |-> hash])]

\* prisma.createTransaction: transaction.create; status is PENDING by default,
\* and the unique index on hash makes the create throw for a recorded hash
createTransaction(rows, type, amount, hash) ==
    IF HashRecorded(rows, hash)
    THEN [threw |-> TRUE, rows |-> rows]
    ELSE [threw |-> FALSE,
          rows |-> Append(rows, [type |-> type, amount |-> amount,
                                 status |-> "PENDING", hash |-> hash])]

\* prisma.updateTransactionStatus: transaction.update where { hash }, which
\* throws when no row has the hash
updateTransactionStatus(rows, hash, status) ==
    IF ~HashRecorded(rows, hash)
    THEN [threw |-> TRUE, rows |-> rows]
    ELSE [threw |-> FALSE,
          rows |-> [i \in DOMAIN rows |->
                      IF rows[i].hash = hash THEN [rows[i] EXCEPT !.status = status]
                      ELSE rows[i]]]

\* the createTransaction call of transferNative / swapTokens
txRecord(p) ==
    /\ h[p].pc = "record"
    /\ LET hr == h[p]
           tx == hr.tx
           created == createTransaction(transactions,
                                        IF tx.kind = "swap" THEN "SWAP" ELSE "SEND",
                                        NumToString(tx.amount), tx.hash)
       IN  /\ transactions' = created.rows
           /\ h' = [h EXCEPT ![p] = IF created.threw THEN ThrowRaw(hr, "TransactionError")
                                    ELSE Resume(hr)]
    /\ UNCHANGED <<now, user, wallet, session, balance, bg, guard,
                   nsub, lastSub, pinSubs, wrongPins, scn,
                   ret, onb, others>>

(***************************************************************************)
(* The environment: the clock, callers of the exported session service and *)
(* of the account guard of the Prisma client.  They act between messages.  *)
(***************************************************************************)
Quiet == (\A p \in Handlers : h[p].pc = "idle") /\ bg = "none"

Tick ==
    /\ Quiet
    /\ now + TickMinutes <= MaxTime
    /\ now' = now + TickMinutes
    /\ wrongPins' = 0
    /\ scn' = [idx |-> ScenarioOff, steps |-> <<>>]
    /\ UNCHANGED <<user, wallet, session, balance, transactions, h, bg, guard,
                   nsub, lastSub, pinSubs,
                   ret, onb, others>>

\* time passes while a message is being handled
Elapse ==
    /\ ~Quiet
    /\ now + TickMinutes <= MaxTime
    /\ now' = now + TickMinutes
    /\ wrongPins' = 0
    /\ scn' = [idx |-> ScenarioOff, steps |-> <<>>]
    /\ UNCHANGED <<user, wallet, session, balance, transactions, h, bg, guard,
                   nsub, lastSub, pinSubs, ret, onb, others>>

\* where: { expiresAt: { lt: new Date() } }
Expired(s, t) == s.exists /\ s.expiresAt < t

\* a sweep that deletes the sessions that expire up to now
SweepUpToNow(s, t) == IF s.exists /\ s.expiresAt <= t THEN NoSession ELSE s

\* what deleteMany leaves of a row
Sweep(s, t) == IF Expired(s, t) THEN NoSession ELSE s

\* sessionService.clearExpiredSessions = prisma.cleanExpiredSessions: one
\* deleteMany over the sessions table, at any moment; it returns the count
clearExpiredSessions ==
    /\ session' = Sweep(session, now)
    /\ others' = [ph \in OtherPhones |-> Sweep(others[ph], now)]
    /\ ret' = [op |-> "clearExpiredSessions",
               value |-> ToString(Cardinality({ph \in OtherPhones : others'[ph] # others[ph]})
                                  + IF session' # session THEN 1 ELSE 0),
               params |-> NoUpdate,
               before |-> ret.op,
               at |-> now]
    /\ UNCHANGED <<now, user, wallet, balance, transactions, h, bg, guard,
                   nsub, lastSub, pinSubs, wrongPins, scn, onb>>

\* sessions at the PIN step that a caller of sessionService.createSession
\* stores: a send and a swap with chain, address / tokens and amount collected
PinStepSessions ==
    << [currentStep |-> "SEND_CRYPTO_PIN",
        context |-> ("chain" :> S_solana) @@ ("address" :> B_solAddr) @@ ("amount" :> 5)],
       [currentStep |-> "SWAP_TOKENS_PIN",
        context |-> ("chain" :> S_solana) @@ ("fromToken" :> S_SOL)
                    @@ ("toToken" :> B_solAddr) @@ ("amount" :> 5)] >>

\* sessionService.createSession(params): deleteSession, then create
createSession ==
    /\ Quiet
    /\ \E i \in DOMAIN PinStepSessions :
          session' = NewSession(PinStepSessions[i].currentStep, PinStepSessions[i].context, now)
    /\ pinSubs' = 0
    /\ scn' = [idx |-> ScenarioOff, steps |-> <<>>]
    /\ UNCHANGED <<now, user, wallet, balance, transactions, h, bg, guard,
                   nsub, lastSub, wrongPins,
                   ret, onb, others>>

\* the result of a call of the account guard, and the call before it
GuardReturn(op, value) == [NoReturn EXCEPT !.op = op, !.value = value, !.before = ret.op]

\* an incrementFailedPinAttempts that locks after more than three failures
incrementFailedPinAttemptsAfterThree ==
    /\ Quiet
    /\ guard = "none"
    /\ user.failedPinAttempts < MaxAttempts
    /\ user' = [user EXCEPT !.failedPinAttempts = @ + 1]
    /\ guard' = IF user.failedPinAttempts + 1 > LockThreshold THEN "lock" ELSE "none"
    /\ scn' = [idx |-> ScenarioOff, steps |-> <<>>]
    /\ ret' = GuardReturn("incrementFailedPinAttempts", "")
    /\ UNCHANGED <<now, wallet, session, balance, transactions, h, bg,
                   nsub, lastSub, pinSubs, wrongPins, onb, others>>

\* prisma.incrementFailedPinAttempts: the update that increments
incrementFailedPinAttempts ==
    /\ Quiet
    /\ guard = "none"
    /\ user.failedPinAttempts < MaxAttempts
    /\ user' = [user EXCEPT !.failedPinAttempts = @ + 1]
    /\ guard' = IF user.failedPinAttempts + 1 >= LockThreshold THEN "lock" ELSE "none"
    /\ scn' = [idx |-> ScenarioOff, steps |-> <<>>]
    /\ ret' = GuardReturn("incrementFailedPinAttempts", "")
    /\ UNCHANGED <<now, wallet, session, balance, transactions, h, bg,
                   nsub, lastSub, pinSubs, wrongPins, onb, others>>

\* prisma.incrementFailedPinAttempts: the update that sets pinLockedUntil
lockAccount ==
    /\ guard = "lock"
    /\ user' = [user EXCEPT !.pinLockedUntil = now + LockMinutes]
    /\ guard' = "none"
    /\ UNCHANGED <<now, wallet, session, balance, transactions, h, bg,
                   nsub, lastSub, pinSubs, wrongPins, scn,
                   ret, onb, others>>

resetFailedPinAttempts ==
    /\ Quiet
    /\ guard = "none"
    /\ user.failedPinAttempts > 0 \/ user.pinLockedUntil # NoDate
    /\ user' = [user EXCEPT !.failedPinAttempts = 0, !.pinLockedUntil = NoDate]
    /\ wrongPins' = 0
    /\ ret' = GuardReturn("resetFailedPinAttempts", "")
    /\ UNCHANGED <<now, wallet, session, balance, transactions, h, bg, guard,
                   nsub, lastSub, pinSubs, scn, onb, others>>

\* the lock of account u has run out at time t
LockExpired(u, t) == u.pinLockedUntil # NoDate /\ u.pinLockedUntil < t

\* what prisma.isPinLocked returns for account u at time t
isPinLockedResult(u, t) == u.pinLockedUntil # NoDate /\ ~(u.pinLockedUntil < t)

\* an isPinLocked that reports a lock that has run out and leaves it
isPinLockedNoUnlock ==
    /\ Quiet
    /\ guard = "none"
    /\ ret' = GuardReturn("isPinLocked",
                          IF user.pinLockedUntil # NoDate THEN "true" ELSE "false")
    /\ UNCHANGED <<now, user, wallet, session, balance, transactions, h, bg, guard,
                   nsub, lastSub, pinSubs, wrongPins, scn, onb, others>>

\* prisma.isPinLocked: no lock gives false; a lock that has run out is
\* cleared by resetFailedPinAttempts and gives false; a lock gives true
isPinLocked ==
    /\ Quiet
    /\ guard = "none"
    /\ user' = IF LockExpired(user, now)
               THEN [user EXCEPT !.failedPinAttempts = 0, !.pinLockedUntil = NoDate]
               ELSE user
    /\ wrongPins' = IF LockExpired(user, now) THEN 0 ELSE wrongPins
    /\ ret' = GuardReturn("isPinLocked",
                          IF isPinLockedResult(user, now) THEN "true" ELSE "false")
    /\ UNCHANGED <<now, wallet, session, balance, transactions, h, bg, guard,
                   nsub, lastSub, pinSubs, scn, onb, others>>

\* an increment that stops at the threshold of the lock
incrementSaturating(n) == Min(n + 1, LockThreshold)

\* the update { failedPinAttempts: { increment: 1 } }: one statement of the
\* database, which adds one to the stored value
increment(n) == n + 1

\* incrementFailedPinAttempts of caller p: the update that increments and
\* gives back the new value; at three or more the caller goes on to the
\* update that sets pinLockedUntil
guardIncrement(p) ==
    /\ h[p].pc = "idle"
    /\ user.failedPinAttempts < MaxAttempts
    /\ user' = [user EXCEPT !.failedPinAttempts = increment(@)]
    /\ h' = [h EXCEPT ![p] = IF user'.failedPinAttempts >= LockThreshold
                              THEN [IdleHandler EXCEPT !.pc = "lockAccount",
                                                       !.where = "incrementFailedPinAttempts"]
                              ELSE IdleHandler]
    /\ ret' = GuardReturn("incrementFailedPinAttempts", ToString(user'.failedPinAttempts))
    /\ UNCHANGED <<now, wallet, session, balance, transactions, bg, guard,
                   nsub, lastSub, pinSubs, wrongPins, scn, onb, others>>

\* incrementFailedPinAttempts of caller p: the second update, pinLockedUntil
\* five minutes after the time of the caller
guardLock(p) ==
    /\ h[p].pc = "lockAccount"
    /\ user' = [user EXCEPT !.pinLockedUntil = now + LockMinutes]
    /\ h' = [h EXCEPT ![p] = IdleHandler]
    /\ UNCHANGED <<now, wallet, session, balance, transactions, bg, guard,
                   nsub, lastSub, pinSubs, wrongPins, scn, ret, onb, others>>

\* resetFailedPinAttempts of caller p: one update of both columns
guardReset(p) ==
    /\ h[p].pc = "idle"
    /\ user.failedPinAttempts > 0 \/ user.pinLockedUntil # NoDate
    /\ user' = [user EXCEPT !.failedPinAttempts = 0, !.pinLockedUntil = NoDate]
    /\ ret' = GuardReturn("resetFailedPinAttempts", "")
    /\ UNCHANGED <<now, wallet, session, balance, transactions, h, bg, guard,
                   nsub, lastSub, pinSubs, wrongPins, scn, onb, others>>

\* isPinLocked of caller p: the read of pinLockedUntil; a lock that has run
\* out sends the caller on to resetFailedPinAttempts
guardIsPinLocked(p) ==
    /\ h[p].pc = "idle"
    /\ IF LockExpired(user, now)
       THEN /\ h' = [h EXCEPT ![p] = [IdleHandler EXCEPT !.pc = "unlock",
                                                         !.where = "isPinLocked"]]
            /\ ret' = ret
       ELSE /\ h' = h
            /\ ret' = GuardReturn("isPinLocked",
                                  IF isPinLockedResult(user, now) THEN "true" ELSE "false")
    /\ UNCHANGED <<now, user, wallet, session, balance, transactions, bg, guard,
                   nsub, lastSub, pinSubs, wrongPins, scn, onb, others>>

\* isPinLocked of caller p: its resetFailedPinAttempts, then return false
guardUnlock(p) ==
    /\ h[p].pc = "unlock"
    /\ user' = [user EXCEPT !.failedPinAttempts = 0, !.pinLockedUntil = NoDate]
    /\ h' = [h EXCEPT ![p] = IdleHandler]
    /\ ret' = GuardReturn("isPinLocked", "false")
    /\ UNCHANGED <<now, wallet, session, balance, transactions, bg, guard,
                   nsub, lastSub, pinSubs, wrongPins, scn, onb, others>>

\* a caller (the onboarding service, the controller, a maintenance job) calls
\* a method of the session service: createSession(params), resetSession,
\* getOrCreateSession(phone, IDLE) or getSession
sessionServiceCall(p) ==
    /\ h[p].pc = "idle"
    /\ \E op \in ServiceCalls : \E i \in DOMAIN PinStepSessions :
          LET hr == [IdleHandler EXCEPT !.where = op, !.reply = "ok"]
          IN  h' = [h EXCEPT ![p] =
                       CASE op = "createSession" ->
                               [hr EXCEPT !.pc = "createDelete", !.call = "create",
                                          !.upd = PinStepSessions[i]]
                         [] op = "resetSession" -> resetSession(hr, "done", "ok")
                         [] op = "getOrCreateSession" -> getOrCreateSession(hr, "done")
                         [] OTHER -> [hr EXCEPT !.pc = "getSession", !.call = "get"]]
    /\ UNCHANGED <<now, user, wallet, session, balance, transactions, bg, guard,
                   nsub, lastSub, pinSubs, wrongPins, scn, ret, onb, others>>

\* the params of the calls of updateSession: a context that overwrites keys
\* of the stored context and adds one, an empty context, with and without a
\* currentStep
UpdateParams ==
    { [currentStep |-> step, context |-> context] :
         step \in {"", "IDLE", "SEND_CRYPTO_CONFIRM"},
         context \in { EmptyContext,
                       "amount" :> 2,
                       ("chain" :> S_ethereum) @@ ("note" :> B_half) } }

\* a caller calls sessionService.updateSession(phone, params), or
\* updateContext / updateStep, which pass the context or the step alone
updateSessionCall(p) ==
    /\ h[p].pc = "idle"
    /\ \E params \in UpdateParams :
          h' = [h EXCEPT ![p] =
                   updateSession([IdleHandler EXCEPT !.where = "updateSession"],
                                 params.currentStep, params.context, "done", "ok")]
    /\ UNCHANGED <<now, user, wallet, session, balance, transactions, bg, guard,
                   nsub, lastSub, pinSubs, wrongPins, scn, ret, onb, others>>

(***************************************************************************)
(* Onboarding of a new phone: handleOnboardingFlow and the methods of the  *)
(* onboarding service.  One call runs at a time; each action is one call.  *)
(***************************************************************************)
B_seqPin == <<"1","2","3","4">>

B_yes == <<"y","e","s">>

B_no == <<"n","o">>

B_saved == <<"S","A","V","E","D">>

S_saved == <<"s","a","v","e","d">>

\* encryption.util.ts isValidPin: the list of sequential PINs
sequential ==
    { <<"0","1","2","3">>, <<"1","2","3","4">>, <<"2","3","4","5">>,
      <<"3","4","5","6">>, <<"4","5","6","7">>, <<"5","6","7","8">>,
      <<"6","7","8","9">>, <<"9","8","7","6">>, <<"8","7","6","5">>,
      <<"7","6","5","4">>, <<"6","5","4","3">>, <<"5","4","3","2">>,
      <<"4","3","2","1">>, <<"3","2","1","0">> }

\* isValidPin without the test of the sequential list
isValidPinNoSequential(pin) ==
    /\ Len(pin) = 4
    /\ \A i \in 1..4 : IsDigit(pin[i])
    /\ ~(\A i \in 2..4 : pin[i] = pin[1])

\* encryption.util.ts isValidPin: /^\d{4}$/, not /^(\d)\1{3}$/, not sequential
isValidPin(pin) ==
    /\ Len(pin) = 4
    /\ \A i \in 1..4 : IsDigit(pin[i])
    /\ ~(\A i \in 2..4 : pin[i] = pin[1])
    /\ pin \notin sequential

\* no wallets row
NoWallet == [encryptedSeed |-> NoCiphertext, salt |-> ""]

\* getProgress: no users row, or no onboardingStep, gives AWAITING_PIN_CHOICE
getProgress == IF onb.step = "" THEN "AWAITING_PIN_CHOICE" ELSE onb.step

\* what sessionService.getSession gives at time t: the row, or null for a
\* missing or expired row (the expired row is deleted)
LiveSession(s, t) == s.exists /\ ~(s.expiresAt < t)

\* sessionService.updateSession on a row that getSession has given
UpdatedSession(s, step, context, t) ==
    [exists |-> TRUE, currentStep |-> step, context |-> Spread(s.context, context),
     expiresAt |-> t + SESSION_EXPIRY_MINUTES]

\* the text a call of the onboarding service returned, or the error it
\* threw, and the call before it
OnboardReturn(op, value) == [NoReturn EXCEPT !.op = op, !.value = value, !.before = ret.op]

\* an isUserOnboarded that never finds the account onboarded
isUserOnboardedNever == FALSE

\* prisma.isUserOnboarded: user?.onboardingStatus === 'COMPLETED'
isUserOnboarded == onb.status = "COMPLETED"

\* a phone that has no wallets and no session; its users row, which touchUser
\* creates, has the default onboardingStatus PENDING and no onboardingStep
InitOnboard ==
    /\ now = 0
    /\ user = [pinEnabled |-> FALSE, failedPinAttempts |-> 0, pinLockedUntil |-> NoDate]
    /\ wallet = NoWallet
    /\ session = NoSession
    /\ balance = [c \in ChainKeys |-> InitialBalance]
    /\ transactions = <<>>
    /\ h = [p \in Handlers |-> IdleHandler]
    /\ bg = "none"
    /\ guard = "none"
    /\ nsub = 0
    /\ lastSub = NoSubmission
    /\ pinSubs = 0
    /\ wrongPins = 0
    /\ scn = [idx |-> ScenarioOff, steps |-> <<>>]
    /\ ret = NoReturn
    /\ onb = [status |-> "PENDING", step |-> "", pinHash |-> NoHash]
    /\ others = OtherSessions

\* startOnboarding: upsert of the user, createSession(AWAITING_PIN_CHOICE, {})
startOnboarding ==
    /\ onb' = [onb EXCEPT !.status = "IN_PROGRESS", !.step = "AWAITING_PIN_CHOICE"]
    /\ session' = NewSession("AWAITING_PIN_CHOICE", EmptyContext, now)
    /\ ret' = OnboardReturn("startOnboarding", "greeting")
    /\ UNCHANGED <<user, wallet>>

\* createWalletsWithoutPin: upsert, createUserWallets(user.id), updateSession
createWalletsWithoutPin ==
    /\ user' = [user EXCEPT !.pinEnabled = FALSE]
    /\ onb' = [onb EXCEPT !.step = "DISPLAYING_SEED"]
    /\ \E salt \in WalletSalts : wallet' = createUserWallets(UserId, FALSE, <<>>, salt)
    /\ IF LiveSession(session, now)
       THEN /\ session' = UpdatedSession(session, "DISPLAYING_SEED",
                                         "mnemonic" :> Mnemonic, now)
            /\ ret' = OnboardReturn("createWalletsWithoutPin", "walletsReady")
       ELSE /\ session' = NoSession
            /\ ret' = OnboardReturn("createWalletsWithoutPin", "NotFoundError")

\* handlePinChoice(phone, choice)
handlePinChoice(choice) ==
    LET normalizedChoice == Trim(ToLowerCase(choice))
    IN  IF normalizedChoice \in {<<"y","e","s">>, <<"y">>}
        THEN IF LiveSession(session, now)
             THEN /\ session' = UpdatedSession(session, "AWAITING_PIN",
                                               "wantsPin" :> TRUE, now)
                  /\ onb' = [onb EXCEPT !.step = "AWAITING_PIN"]
                  /\ ret' = OnboardReturn("handlePinChoice", "enterPin")
                  /\ UNCHANGED <<user, wallet>>
             ELSE /\ session' = NoSession
                  /\ ret' = OnboardReturn("handlePinChoice", "NotFoundError")
                  /\ UNCHANGED <<user, wallet, onb>>
        ELSE IF normalizedChoice \in {<<"n","o">>, <<"n">>, <<"s","k","i","p">>}
        THEN createWalletsWithoutPin
        ELSE /\ ret' = OnboardReturn("handlePinChoice", "didntCatch")
             /\ UNCHANGED <<user, wallet, session, onb>>

\* processPin(phone, pin): the PIN goes into the session context as tempPin
processPin(pin) ==
    IF ~isValidPin(pin)
    THEN /\ ret' = OnboardReturn("processPin", "invalidPin")
         /\ UNCHANGED <<user, wallet, session, onb>>
    ELSE IF LiveSession(session, now)
    THEN /\ session' = UpdatedSession(session, "CONFIRMING_PIN",
                                      ("tempPin" :> pin) @@ ("wantsPin" :> TRUE), now)
         /\ onb' = [onb EXCEPT !.step = "CONFIRMING_PIN"]
         /\ ret' = OnboardReturn("processPin", "goodPin")
         /\ UNCHANGED <<user, wallet>>
    ELSE /\ session' = NoSession
         /\ ret' = OnboardReturn("processPin", "NotFoundError")
         /\ UNCHANGED <<user, wallet, onb>>

\* confirmPin(phone, confirmPin): hashPin, upsert of pinHash and pinEnabled,
\* createUserWallets(user.id, confirmPin), updateSession with the mnemonic
confirmPin(pin) ==
    IF ~(LiveSession(session, now) /\ Has(session.context, "tempPin"))
    THEN /\ session' = IF LiveSession(session, now) THEN session ELSE NoSession
         /\ ret' = OnboardReturn("confirmPin", "ValidationError")
         /\ UNCHANGED <<user, wallet, onb>>
    ELSE IF pin # session.context["tempPin"]
    THEN /\ ret' = OnboardReturn("confirmPin", "dontMatch")
         /\ UNCHANGED <<user, wallet, session, onb>>
    ELSE /\ onb' = [onb EXCEPT !.step = "DISPLAYING_SEED", !.pinHash = hashPin(pin)]
         /\ user' = [user EXCEPT !.pinEnabled = TRUE]
         /\ \E salt \in WalletSalts : wallet' = createUserWallets(UserId, TRUE, pin, salt)
         /\ session' = UpdatedSession(session, "DISPLAYING_SEED",
                                      "mnemonic" :> Mnemonic, now)
         /\ ret' = OnboardReturn("confirmPin", "walletsReady")

\* confirmSeedSaved: upsert of COMPLETED, resetSession
confirmSeedSaved ==
    /\ onb' = [onb EXCEPT !.status = "COMPLETED", !.step = "COMPLETED"]
    /\ session' = NewSession("IDLE", EmptyContext, now)
    /\ ret' = OnboardReturn("confirmSeedSaved", "allSet")
    /\ UNCHANGED <<user, wallet>>

\* webhook.controller.ts handleOnboardingFlow: the switch on progress.step
\* the switch of handleOnboardingFlow on the step that getProgress gave
onboardingSwitch(step, message) ==
    CASE step = "AWAITING_PIN" -> processPin(message)
      [] step = "CONFIRMING_PIN" -> confirmPin(message)
      [] step = "DISPLAYING_SEED" ->
            IF detectSimpleIntent(message) = "confirm" \/ ToLowerCase(message) = S_saved
            THEN confirmSeedSaved
            ELSE /\ ret' = OnboardReturn("handleOnboardingFlow", "pleaseTypeSaved")
                 /\ UNCHANGED <<user, wallet, session, onb>>
      [] step = "COMPLETED" ->
            /\ ret' = OnboardReturn("handleOnboardingFlow", "walletReady")
            /\ UNCHANGED <<user, wallet, session, onb>>
      [] OTHER -> startOnboarding

handleOnboardingFlow(message) ==
    /\ onboardingSwitch(getProgress, message)
    /\ UNCHANGED <<now, balance, transactions, h, bg, guard,
                   nsub, lastSub, pinSubs, wrongPins, scn, others>>

\* handleOnboardingFlow up to the end of its await of getProgress: the
\* execution holds the step it has read
onboardingProgress(p, message) ==
    /\ h[p].pc = "idle"
    /\ h' = [h EXCEPT ![p] = [IdleHandler EXCEPT !.pc = "handleOnboardingFlow",
                                                  !.msg = message,
                                                  !.step = getProgress]]
    /\ UNCHANGED <<now, user, wallet, session, balance, transactions, bg, guard,
                   nsub, lastSub, pinSubs, wrongPins, scn, ret, onb, others>>

\* handleOnboardingFlow after getProgress: the switch on the step read
onboardingDispatch(p) ==
    /\ h[p].pc = "handleOnboardingFlow"
    /\ onboardingSwitch(h[p].step, h[p].msg)
    /\ h' = [h EXCEPT ![p] = IdleHandler]
    /\ UNCHANGED <<now, balance, transactions, bg, guard,
                   nsub, lastSub, pinSubs, wrongPins, scn, others>>

\* messages of a phone that is being onboarded
OnboardBodies == {B_pin, B_wrongPin, B_seqPin, B_yes, B_no, B_saved}

\* handleIncomingMessage for a phone that is not onboarded
OnboardingMessage ==
    /\ Quiet
    /\ ~isUserOnboarded
    /\ \E body \in OnboardBodies : handleOnboardingFlow(body)

\* a caller answers the question of startOnboarding with handlePinChoice
PinChoiceCall ==
    /\ Quiet
    /\ onb.step = "AWAITING_PIN_CHOICE"
    /\ \E choice \in {B_yes, B_no, B_saved} : handlePinChoice(choice)
    /\ UNCHANGED <<now, balance, transactions, h, bg, guard,
                   nsub, lastSub, pinSubs, wrongPins, scn, others>>

(***************************************************************************)
(* Callers of the transaction methods of the Prisma client: the transfer   *)
(* and swap code for createTransaction, a monitor for                      *)
(* updateTransactionStatus.                                                *)
(***************************************************************************)
TxHashes == 1..MaxSubmissions

TxStatuses == {"PENDING", "CONFIRMED", "FAILED"}

TxReturn(op, threw, error) ==
    [NoReturn EXCEPT !.op = op, !.value = IF threw THEN error ELSE "ok"]

createTransactionCall ==
    /\ \E hash \in TxHashes, type \in {"SEND", "SWAP"} :
          LET created == createTransaction(transactions, type, NumToString(5), hash)
          IN  /\ transactions' = created.rows
              /\ ret' = TxReturn("createTransaction", created.threw, "UniqueConstraint")
    /\ UNCHANGED <<now, user, wallet, session, balance, h, bg, guard,
                   nsub, lastSub, pinSubs, wrongPins, scn, onb, others>>

updateTransactionStatusCall ==
    /\ \E hash \in TxHashes, status \in TxStatuses :
          LET updated == updateTransactionStatus(transactions, hash, status)
          IN  /\ transactions' = updated.rows
              /\ ret' = TxReturn("updateTransactionStatus", updated.threw, "RecordNotFound")
    /\ UNCHANGED <<now, user, wallet, session, balance, h, bg, guard,
                   nsub, lastSub, pinSubs, wrongPins, scn, onb, others>>

(***************************************************************************)
(* aiService.analyzeMessage with the reply of the language model as its    *)
(* second input.  A JavaScript value is a record with its kind in k; a     *)
(* reply is an exception of the API, no content, or a content that is the  *)
(* text of a JSON object, the text of JSON null, or not JSON.              *)
(***************************************************************************)
JsUndefined == [k |-> "undefined", v |-> <<>>]

JsNull == [k |-> "null", v |-> <<>>]

JsText(t) == [k |-> "text", v |-> t]

JsNumber(n) == [k |-> "number", v |-> n]

JsMap(m) == [k |-> "map", v |-> m]

JsList == [k |-> "list", v |-> <<>>]

\* the values JavaScript takes as true in a || b
Truthy(x) ==
    CASE x.k \in {"undefined", "null"} -> FALSE
      [] x.k = "text" -> Len(x.v) > 0
      [] x.k = "number" -> x.v # 0
      [] OTHER -> TRUE

\* a || b
OrElse(a, b) == IF Truthy(a) THEN a ELSE b

\* ai.service.ts normalizeIntent: intentMap
intentMap ==
    { <<<<"c","r","e","a","t","e","_","w","a","l","l","e","t">>, "create_wallet">>,
      <<<<"c","h","e","c","k","_","b","a","l","a","n","c","e">>, "check_balance">>,
      <<<<"s","e","n","d","_","c","r","y","p","t","o">>, "send_crypto">>,
      <<<<"r","e","c","e","i","v","e","_","c","r","y","p","t","o">>, "receive_crypto">>,
      <<<<"s","w","a","p","_","t","o","k","e","n","s">>, "swap_tokens">>,
      <<<<"t","r","a","n","s","a","c","t","i","o","n","_","h","i","s","t","o","r","y">>, "transaction_history">>,
      <<<<"v","i","e","w","_","a","d","d","r","e","s","s">>, "view_address">>,
      <<<<"s","e","t","t","i","n","g","s">>, "settings">>,
      <<<<"c","h","a","n","g","e","_","p","i","n">>, "change_pin">>,
      <<<<"t","o","g","g","l","e","_","p","i","n">>, "toggle_pin">>,
      <<<<"h","e","l","p">>, "help">>,
      <<<<"c","o","n","f","i","r","m">>, "confirm">>,
      <<<<"c","a","n","c","e","l">>, "cancel">>,
      <<<<"u","n","k","n","o","w","n">>, "unknown">> }

\* intentStr.toLowerCase().replace(/[_-]/g, '_')
NormalizedLabel(t) == [i \in DOMAIN t |-> IF LowerOf(t[i]) = "-" THEN "_" ELSE LowerOf(t[i])]

\* normalizeIntent: a value that is not a string is returned as it is
normalizeIntent(intentStr) ==
    IF intentStr.k # "text" THEN intentStr
    ELSE LET hits == {e \in intentMap : e[1] = NormalizedLabel(intentStr.v)}
         IN  IF hits = {} THEN JsText(<<"u","n","k","n","o","w","n">>)
             ELSE JsText((CHOOSE e \in hits : TRUE)[1])

\* detectIntentFromText: the fallback for a content that does not parse
detectIntentFromText(text) ==
    LET lower == ToLowerCase(text)
        has(w) == Includes(lower, w)
    IN  IF has(<<"b","a","l","a","n","c","e">>) \/ has(<<"h","o","w"," ","m","u","c","h">>) THEN <<"c","h","e","c","k","_","b","a","l","a","n","c","e">>
        ELSE IF has(<<"s","e","n","d">>) \/ has(<<"t","r","a","n","s","f","e","r">>) THEN <<"s","e","n","d","_","c","r","y","p","t","o">>
        ELSE IF has(<<"r","e","c","e","i","v","e">>) \/ has(<<"a","d","d","r","e","s","s">>) THEN <<"v","i","e","w","_","a","d","d","r","e","s","s">>
        ELSE IF has(<<"s","w","a","p">>) \/ has(<<"e","x","c","h","a","n","g","e">>) THEN <<"s","w","a","p","_","t","o","k","e","n","s">>
        ELSE IF has(<<"h","i","s","t","o","r","y">>) \/ has(<<"t","r","a","n","s","a","c","t","i","o","n">>) THEN <<"t","r","a","n","s","a","c","t","i","o","n","_","h","i","s","t","o","r","y">>
        ELSE IF has(<<"h","e","l","p">>) \/ has(<<"m","e","n","u">>) THEN <<"h","e","l","p">>
        ELSE IF has(<<"s","e","t","t","i","n","g","s">>) \/ has(<<"p","i","n">>) THEN <<"s","e","t","t","i","n","g","s">>
        ELSE <<"u","n","k","n","o","w","n">>

\* createUnknownIntent: confidence 0, entities {}
createUnknownIntent ==
    [threw |-> FALSE, intent |-> JsText(<<"u","n","k","n","o","w","n">>), entities |-> JsMap(EmptyContext),
     confidence |-> JsNumber(0)]

\* parseAIResponse: JSON.parse of the content; a content that is not the text
\* of a JSON object with an intent goes to the catch, which gives the intent
\* of detectIntentFromText with confidence 0.3
parseAIResponse(reply) ==
    IF reply.kind = "object" /\ Truthy(reply.intent)
    THEN [threw |-> FALSE,
          intent |-> normalizeIntent(reply.intent),
          entities |-> OrElse(reply.entities, JsMap(EmptyContext)),
          confidence |-> OrElse(reply.confidence, JsNumber(5))]
    ELSE [threw |-> FALSE,
          intent |-> JsText(detectIntentFromText(reply.content)),
          entities |-> JsMap(EmptyContext),
          confidence |-> JsNumber(3)]

\* analyzeMessage(userMessage) when the language model answers with reply
analyzeMessageResult(userMessage, reply) ==
    IF Len(sanitizeInput(userMessage)) = 0 THEN createUnknownIntent
    ELSE IF reply.kind \in {"error", "empty"} THEN createUnknownIntent
    ELSE parseAIResponse(reply)

\* replies of the language model: the API throws, the content is empty, the
\* content is not JSON, is JSON null, or is a JSON object with or without an
\* intent, entities and a confidence of several kinds
OracleReplies ==
    { [kind |-> kd, content |-> <<>>, intent |-> JsUndefined, entities |-> JsUndefined,
       confidence |-> JsUndefined] : kd \in {"error", "empty"} }
    \cup { [kind |-> kd, content |-> c, intent |-> JsUndefined, entities |-> JsUndefined,
            confidence |-> JsUndefined] :
              kd \in {"notJson", "null"}, c \in {<<"n","u","l","l">>, <<"p","l","e","a","s","e"," ","s","e","n","d">>, <<"o","o","p","s">>} }
    \cup { [kind |-> "object", content |-> <<"{","}">>, intent |-> i, entities |-> e,
            confidence |-> c] :
              i \in {JsUndefined, JsText(<<>>), JsText(<<"S","e","n","d","-","C","r","y","p","t","o">>), JsText(<<"f","l","y">>),
                     JsNumber(7)},
              e \in {JsUndefined, JsNull, JsMap(EmptyContext), JsMap(SendEntities),
                     JsText(<<"s","o","l","a","n","a">>), JsNumber(0), JsList},
              c \in {JsUndefined, JsNumber(0), JsNumber(9)} }

\* the call that a caller of a function is about to make, and then its result
UtilCall(fn, args) == [op |-> "call", fn |-> fn, args |-> args, value |-> [none |-> TRUE]]

\* every string of four decimal digits
FourDigitStrings ==
    { <<a, b, c, d>> : a \in Range(DigitChars), b \in Range(DigitChars),
                       c \in Range(DigitChars), d \in Range(DigitChars) }

\* seed phrases and PINs of the calls of encryptSeed and decryptSeed: a
\* mnemonic, a text of white space, a text with white space in it, no text
SeedPhrases == {Mnemonic, <<" ">>, <<"a"," ","b">>, <<>>}

SeedPins == {B_pin, B_wrongPin, B_seqPin, <<>>}

\* a wallets row after damage to its columns: another salt or none, no
\* ciphertext, or ciphertext bytes that the key of the row no longer
\* decrypts to the mnemonic (malformed text, no text, the start of the text)
CorruptedRows(row) ==
    { [row EXCEPT !.salt = t] : t \in (Salts \cup {""}) \ {row.salt} }
    \cup { [row EXCEPT !.encryptedSeed = NoCiphertext] }
    \cup { [row EXCEPT !.encryptedSeed.plain = x] : x \in {Malformed, <<>>, <<"s","e">>} }

\* transactionService.sendNative up to its chain call, for an amount the
\* balance covers: the error it throws, or the wallet it calls the chain with
sendNative(row, userId, pinEnabled, hasPin, pin) ==
    IF ~verifyWalletPin(row, userId, pinEnabled, hasPin, pin) THEN "InvalidPinError"
    ELSE IF ~getWalletInstance(row, userId, pinEnabled, hasPin, pin) THEN "ValidationError"
    ELSE IF isAccountWallet(row, userId, pinEnabled, hasPin, pin) THEN "transferNative"
    ELSE "transferNative of another wallet"

\* the entities the resolver gives handleSendCrypto: any of chain, address
\* and amount
PartialEntities ==
    { [k \in keys |-> SendEntities[k]] : keys \in SUBSET {"chain", "address", "amount"} }

UtilCalls ==
    { UtilCall("analyzeMessage", <<m, r>>) : m \in {B_send, B_swap, B_pin, <<>>, <<" ">>}, r \in OracleReplies }
    \cup { UtilCall("isValidPin", <<pin>>) : pin \in FourDigitStrings }
    \cup { UtilCall("encryptSeed", <<seedPhrase, pin, other>>) :
              seedPhrase \in SeedPhrases, pin \in SeedPins, other \in SeedPins }
    \cup { UtilCall("handleSendCrypto", <<entities, "entities">>) : entities \in PartialEntities }
    \cup UNION { { UtilCall("sendNative", <<pin, row, damaged>>) :
                       pin \in {B_wrongPin, B_seqPin}, damaged \in CorruptedRows(row) } :
                   row \in { createUserWallets(UserId, TRUE, UserPin, salt) : salt \in Salts } }

InitUtil ==
    /\ now = 0
    /\ user = [pinEnabled |-> TRUE, failedPinAttempts |-> 0, pinLockedUntil |-> NoDate]
    /\ wallet = createUserWallets(UserId, TRUE, UserPin, "a1")
    /\ session = NewSession("IDLE", EmptyContext, 0)
    /\ balance = [c \in ChainKeys |-> InitialBalance]
    /\ transactions = <<>>
    /\ h = [p \in Handlers |-> IdleHandler]
    /\ bg = "none"
    /\ guard = "none"
    /\ nsub = 0
    /\ lastSub = NoSubmission
    /\ pinSubs = 0
    /\ wrongPins = 0
    /\ scn = [idx |-> ScenarioOff, steps |-> <<>>]
    /\ ret \in UtilCalls
    /\ onb = [status |-> "COMPLETED", step |-> "COMPLETED", pinHash |-> hashPin(UserPin)]
    /\ others = OtherSessions

analyzeMessageCall ==
    /\ ret.op = "call"
    /\ ret.fn = "analyzeMessage"
    /\ ret' = [ret EXCEPT !.op = "return",
                          !.value = analyzeMessageResult(ret.args[1], ret.args[2])]
    /\ UNCHANGED <<now, user, wallet, session, balance, transactions, h, bg, guard,
                   nsub, lastSub, pinSubs, wrongPins, scn, onb, others>>

isValidPinCall ==
    /\ ret.op = "call"
    /\ ret.fn = "isValidPin"
    /\ ret' = [ret EXCEPT !.op = "return",
                          !.value = [result |-> isValidPin(ret.args[1])]]
    /\ UNCHANGED <<now, user, wallet, session, balance, transactions, h, bg, guard,
                   nsub, lastSub, pinSubs, wrongPins, scn, onb, others>>

\* encryptSeed(seedPhrase, pin) of a caller; the salt is random
encryptSeedCall ==
    /\ ret.op = "call"
    /\ ret.fn = "encryptSeed"
    /\ \E salt \in Salts :
          ret' = [ret EXCEPT !.op = "encrypted",
                             !.value = encryptSeed(ret.args[1], ret.args[2], salt)]
    /\ UNCHANGED <<now, user, wallet, session, balance, transactions, h, bg, guard,
                   nsub, lastSub, pinSubs, wrongPins, scn, onb, others>>

\* decryptSeed(encrypted, other, salt) of a caller that has the result of
\* encryptSeed; other is the PIN of the encryption or another one
decryptSeedCall ==
    /\ ret.op = "encrypted"
    /\ ~ret.value.threw
    /\ ret' = [ret EXCEPT !.op = "return",
                          !.fn = "decryptSeed",
                          !.value = [made |-> ret.value,
                                     seedPhrase |-> decryptSeed(ret.value.encrypted,
                                                                ret.args[3],
                                                                ret.value.salt)]]
    /\ UNCHANGED <<now, user, wallet, session, balance, transactions, h, bg, guard,
                   nsub, lastSub, pinSubs, wrongPins, scn, onb, others>>

\* handleSendCrypto(phone, userId, entities) of routeByIntent: the step it
\* passes to updateSession and the text it returns
handleSendCryptoCall ==
    /\ ret.op = "call"
    /\ ret.fn = "handleSendCrypto"
    /\ LET hr == handleSendCrypto(IdleHandler, ret.args[1])
       IN  ret' = [ret EXCEPT !.op = "return",
                              !.value = [currentStep |-> hr.upd.currentStep,
                                         context |-> hr.upd.context,
                                         reply |-> hr.reply]]
    /\ UNCHANGED <<now, user, wallet, session, balance, transactions, h, bg, guard,
                   nsub, lastSub, pinSubs, wrongPins, scn, onb, others>>

\* sendNative twice: with a PIN that is not the PIN of the account on the
\* row as stored, and with the PIN of the account on a damaged row
sendNativeCall ==
    /\ ret.op = "call"
    /\ ret.fn = "sendNative"
    /\ ret' = [ret EXCEPT !.op = "return",
                          !.value = [wrongPin |-> sendNative(ret.args[2], UserId, TRUE,
                                                             TRUE, ret.args[1]),
                                     corrupted |-> sendNative(ret.args[3], UserId, TRUE,
                                                              TRUE, UserPin)]]
    /\ UNCHANGED <<now, user, wallet, session, balance, transactions, h, bg, guard,
                   nsub, lastSub, pinSubs, wrongPins, scn, onb, others>>

(***************************************************************************)
(* Specifications.  Spec: a message arrives when nothing is in flight for  *)
(* the phone (the handling of the message before has ended, and so has a   *)
(* reset it left running).  SpecConc: messages arrive at any time.         *)
(***************************************************************************)
\* a text of 20 characters that is no address of any chain
B_longText == <<"z","z","z","z","z","z","z","z","z","z","z","z","z","z","z","z","z","z","z","z">>

Bodies ==
    {B_send, B_solana, B_ethereum, B_solAddr, B_hexAddr, B_half, B_five,
     B_confirm, B_pin, B_wrongPin, B_cancel, B_swap, B_longText}

\* messages that arrive while the session is at the PIN step
ConcBodies == {B_pin, B_solAddr}

SerialMessage ==
    /\ Quiet
    /\ \E body \in Bodies : handleIncomingMessage(1, body)

ConcurrentMessage ==
    /\ session.exists
    /\ session.currentStep \in PinSteps
    /\ \E p \in Handlers : \E body \in ConcBodies : handleIncomingMessage(p, body)

HandlerStep ==
    \/ \E p \in Handlers : getSession(p)
    \/ \E p \in Handlers : deleteSession(p)
    \/ \E p \in Handlers : createInsert(p)
    \/ \E p \in Handlers : updateWrite(p)
    \/ \E p \in Handlers : handleMainFlow(p)
    \/ \E p \in Handlers : analyzeMessage(p)
    \/ \E p \in Handlers : handleSwapTokensBody(p)
    \/ \E p \in Handlers : handleTokenLookup(p)
    \/ \E p \in Handlers : txVerifyPin(p)
    \/ \E p \in Handlers : txPrepare(p)
    \/ \E p \in Handlers : txSubmit(p)
    \/ \E p \in Handlers : txRecord(p)
    \/ \E p \in Handlers : Finish(p)

BackgroundStep ==
    \/ bgDeleteSession
    \/ bgCreateInsert

Next ==
    \/ SerialMessage
    \/ HandlerStep
    \/ BackgroundStep
    \/ createSession

Spec == Init /\ [][Next]_vars

NextConc ==
    \/ ConcurrentMessage
    \/ HandlerStep
    \/ createSession

SpecConc == Init /\ [][NextConc]_vars

\* messages that arrive while the session is at the PIN step and the account
\* guard is in use
LockBodies == {B_pin, B_wrongPin, B_solAddr}

LockMessage ==
    /\ Quiet
    /\ guard = "none"
    /\ session.exists
    /\ session.currentStep \in PinSteps
    /\ \E body \in LockBodies : handleIncomingMessage(1, body)

GuardStep ==
    \/ incrementFailedPinAttempts
    \/ lockAccount
    \/ resetFailedPinAttempts
    \/ isPinLocked

NextLock ==
    \/ LockMessage
    \/ HandlerStep
    \/ createSession
    \/ Tick
    \/ GuardStep

SpecLock == Init /\ [][NextLock]_vars

\* callers of the account guard, with nothing that makes a call wait for
\* another call on the same account
GuardCall ==
    \E p \in Handlers :
       \/ guardIncrement(p)
       \/ guardLock(p)
       \/ guardReset(p)
       \/ guardIsPinLocked(p)
       \/ guardUnlock(p)

NextGuardConc ==
    \/ GuardCall
    \/ Tick
    \/ Elapse

SpecGuardConc == Init /\ [][NextGuardConc]_vars

\* the session service called by one caller at a time
SessionStep ==
    \/ \E p \in Handlers : getSession(p)
    \/ \E p \in Handlers : deleteSession(p)
    \/ \E p \in Handlers : createInsert(p)
    \/ \E p \in Handlers : Finish(p)

SerialCall == Quiet /\ sessionServiceCall(1)

NextSession ==
    \/ SerialCall
    \/ SessionStep
    \/ Tick

SpecSession == Init /\ [][NextSession]_vars

\* the session service called by callers that do not wait for each other
ConcurrentCall == \E p \in Handlers : sessionServiceCall(p)

NextSessionConc ==
    \/ ConcurrentCall
    \/ SessionStep

SpecSessionConc == Init /\ [][NextSessionConc]_vars

\* onboarding of a new phone, one call at a time, with time passing
NextOnboard ==
    \/ OnboardingMessage
    \/ PinChoiceCall
    \/ Tick

SpecOnboard == InitOnboard /\ [][NextOnboard]_vars

\* the answer that the prompt of an onboarding step asks for: yes to the
\* question of the PIN, a valid PIN, the same PIN again, SAVED
validAnswer(step) ==
    CASE step = "AWAITING_PIN" -> B_pin
      [] step = "CONFIRMING_PIN" -> B_pin
      [] step = "DISPLAYING_SEED" -> B_saved
      [] OTHER -> B_yes

\* the user answers the prompt of the current step and the message is handled
ValidAnswer ==
    /\ Quiet
    /\ ~isUserOnboarded
    /\ handleOnboardingFlow(validAnswer(getProgress))

\* every answer the user owes is sent and handled
SpecOnboardLive == InitOnboard /\ [][NextOnboard]_vars /\ WF_vars(ValidAnswer)

\* messages of one phone that is being onboarded, with nothing that makes
\* an execution wait for another
OnboardingArrives ==
    /\ ~isUserOnboarded
    /\ \E p \in Handlers, body \in OnboardBodies : onboardingProgress(p, body)

OnboardingContinues == \E p \in Handlers : onboardingDispatch(p)

NextOnboardConc ==
    \/ OnboardingArrives
    \/ OnboardingContinues
    \/ PinChoiceCall

SpecOnboardConc == InitOnboard /\ [][NextOnboardConc]_vars

\* the transactions table under calls of its two methods
NextTx ==
    \/ createTransactionCall
    \/ updateTransactionStatusCall

SpecTx == Init /\ [][NextTx]_vars

\* handleIncomingMessage for a phone that is onboarded: handleMainFlow
OnboardedMessage ==
    /\ Quiet
    /\ isUserOnboarded
    /\ \E body \in Bodies \cup OnboardBodies : handleIncomingMessage(1, body)

\* a new phone from its first message on: onboarding, then the main flow
NextEntry ==
    \/ OnboardingMessage
    \/ PinChoiceCall
    \/ OnboardedMessage
    \/ HandlerStep
    \/ BackgroundStep
    \/ createSession

SpecEntry == InitOnboard /\ [][NextEntry]_vars

\* the session service called by one caller at a time while the clock runs
\* and the sweep of expired sessions runs at any moment
NextSweep ==
    \/ SerialCall
    \/ SessionStep
    \/ Tick
    \/ Elapse
    \/ clearExpiredSessions

SpecSweep == Init /\ [][NextSweep]_vars

\* the session service with updateSession, one caller at a time
SerialUpdate == Quiet /\ updateSessionCall(1)

NextUpdate ==
    \/ SerialCall
    \/ SerialUpdate
    \/ SessionStep
    \/ \E p \in Handlers : updateWrite(p)
    \/ Tick

SpecUpdate == Init /\ [][NextUpdate]_vars

\* calls of the functions that have no state
NextUtil ==
    \/ analyzeMessageCall
    \/ isValidPinCall
    \/ encryptSeedCall
    \/ decryptSeedCall
    \/ sendNativeCall
    \/ handleSendCryptoCall

SpecUtil == InitUtil /\ [][NextUtil]_vars

(***************************************************************************)
(* The claims.                                                             *)
(***************************************************************************)
\* an execution that is running the PIN step: it has read the session at the
\* PIN step and has not yet made the reset that ends the step
InPinStep(p) ==
    /\ h[p].where = "pin"
    /\ h[p].pc \in {"verifyWalletPin", "prepare", "submit", "record"}

\* C1: of the messages that arrive while the session is at the PIN step and
\* carry the correct PIN, at most one leads to a chain transfer or swap,
\* however their handling interleaves.
C1_AtMostOneSubmission == pinSubs <= 1

\* C2: handling is serialized per phone: while one execution is between its
\* read of the session and its last write of it, no other execution for the
\* phone runs a flow step.  Stated for the PIN step: no two executions run it
\* at once.
C2_Serialized ==
    \A p, q \in Handlers : p # q => ~(InPinStep(p) /\ InPinStep(q))

\* C3: while pinLockedUntil lies in the future no chain call is made, even
\* with the correct PIN.
C3_LockedNeverSubmits == (user.pinEnabled /\ lastSub.made) => ~lastSub.locked

\* C4: three successive PIN-step messages with a wrong PIN leave the account
\* locked: failedPinAttempts at 3 and pinLockedUntil 5 minutes ahead.
C4_ThreeWrongPinsLock ==
    (user.pinEnabled /\ wrongPins >= LockThreshold) =>
        /\ user.failedPinAttempts >= LockThreshold
        /\ user.pinLockedUntil = now + LockMinutes

C6_SubmitOnlyAtPinStep == lastSub.made => lastSub.step \in PinSteps

\* the steps of the session after each message of the conversation of C7
ScenarioSteps ==
    <<"SEND_CRYPTO_CHAIN", "SEND_CRYPTO_ADDRESS", "SEND_CRYPTO_AMOUNT",
      "SEND_CRYPTO_CONFIRM", "SEND_CRYPTO_PIN", "IDLE">>

\* C7: from an idle session of an account with PIN 5296 and balance 2.0, the
\* messages send, solana, an address, 0.5, confirm, 5296 take the session
\* through the chain, address, amount, confirm and PIN steps in that order,
\* and end with a SEND record of amount "0.5", PENDING or CONFIRMED, and the
\* session at IDLE.
C7_SendConversation ==
    (/\ scn.idx # ScenarioOff
     /\ Len(scn.steps) >= 1
     /\ scn.steps[1] = ScenarioSteps[1])
    => /\ \A i \in DOMAIN scn.steps : scn.steps[i] = ScenarioSteps[i]
       /\ Len(scn.steps) = Len(ScenarioSteps) =>
             \E i \in DOMAIN transactions :
                /\ transactions[i].type = "SEND"
                /\ transactions[i].amount = B_half
                /\ transactions[i].status \in {"PENDING", "CONFIRMED"}

\* C8: when the PIN does not verify at the PIN step, the session stays at the
\* PIN step with its context unchanged and the user is asked again.
C8_FailedPinKeepsSession ==
    \A p \in Handlers :
        (/\ user.pinEnabled
         /\ h[p].pc = "done"
         /\ h[p].step \in PinSteps
         /\ h[p].verified = "fail")
        => /\ session.exists
           /\ session.currentStep = h[p].step
           /\ session.context = h[p].ctx

\* C9: in the send flow of a native token, an amount above the balance given
\* at the amount step is refused with a balance error and the session stays
\* at the amount step with its context unchanged.
C9_AmountAboveBalanceRefused ==
    \A p \in Handlers :
        (/\ h[p].pc = "done"
         /\ h[p].step = "SEND_CRYPTO_AMOUNT"
         /\ ~Has(h[p].ctx, "tokenAddress")
         /\ Has(h[p].ctx, "chain")
         /\ normalizeChainKey(h[p].ctx.chain) # Null
         /\ parseFloat(Trim(h[p].msg)) # NaN
         /\ parseFloat(Trim(h[p].msg)) > balance[normalizeChainKey(h[p].ctx.chain)])
        => /\ h[p].reply = "insufficientBalance"
           /\ session.exists
           /\ session.currentStep = "SEND_CRYPTO_AMOUNT"
           /\ session.context = h[p].ctx

\* C10: when the handling of a PIN-step message whose PIN verified ends, the
\* session is at IDLE with an empty context, whether the chain call succeeded,
\* returned a failure or threw.
C10_VerifiedPinEndsIdle ==
    [][\A p \in Handlers :
          (/\ h[p].pc # "done"
           /\ h'[p].pc = "done"
           /\ h'[p].step \in PinSteps
           /\ h'[p].verified = "ok")
          => /\ session'.exists
             /\ session'.currentStep = "IDLE"
             /\ session'.context = EmptyContext]_vars

\* C11: a cancellation keyword at a step other than IDLE leaves the session
\* at IDLE with an empty context by the time the reply is produced.
C11_CancelResetsBeforeReply ==
    \A p \in Handlers :
        (/\ h[p].pc = "done"
         /\ h[p].reply = "cancelled"
         /\ h[p].step # "IDLE")
        => /\ session.exists
           /\ session.currentStep = "IDLE"
           /\ session.context = EmptyContext

\* C12: after two createSession calls for the phone, one after the other,
\* there is one session row for the phone and it has the step and the context
\* of the second call.
C12_SecondCreateWins ==
    (ret.op = "createSession" /\ Quiet)
    => /\ ret.value = "ok"
       /\ session.exists
       /\ session.currentStep = ret.params.currentStep
       /\ session.context = ret.params.context

\* a createSession has returned right after another createSession
C12_Witness ==
    /\ Quiet
    /\ ret.op = "createSession"
    /\ ret.before = "createSession"
    /\ session.exists
    /\ session.currentStep = "SWAP_TOKENS_PIN"

\* C13: for every interleaving of createSession, resetSession and
\* getOrCreateSession calls for the phone, every call completes without error
\* (and one session row remains).
C13_CallsCompleteWithoutError ==
    \A p \in Handlers :
        (h[p].where \in ServiceCalls /\ h[p].pc = "done") => h[p].err = ""

\* C14: getSession on a session whose expiresAt is before the current time
\* returns null and leaves no session row for the phone.
C14_ExpiredSessionIsGone ==
    [][\A p \in Handlers :
          /\ (/\ h[p].where = "getSession"
              /\ h[p].pc = "getSession"
              /\ h'[p] # h[p]
              /\ session.exists
              /\ session.expiresAt < now)
             => h'[p].pc = "expiredDelete"
          /\ (/\ h[p].where = "getSession"
              /\ h[p].pc = "expiredDelete"
              /\ h'[p] # h[p])
             => /\ h'[p].pc = "done"
                /\ h'[p].reply = "null"
                /\ ~session'.exists]_vars

\* getSession has returned null for the session that a createSession had
\* stored before it: the session had expired in between
C14_Witness ==
    /\ ret.op = "getSession"
    /\ ret.before = "createSession"
    /\ ret.value = "null"
    /\ ~session.exists

\* C15: on an account with no failed attempts, the third
\* incrementFailedPinAttempts in a row locks the account (isPinLocked is true
\* right after it), and a later call never moves pinLockedUntil to an earlier
\* time.
C15_ThirdFailureLocks ==
    [][/\ (guard' = "none" /\ user'.failedPinAttempts >= LockThreshold)
          => user'.pinLockedUntil # NoDate
       /\ (guard = "lock" /\ guard' = "none")
          => /\ user'.failedPinAttempts >= LockThreshold
             /\ isPinLockedResult(user', now')
             /\ user.pinLockedUntil # NoDate
                => user'.pinLockedUntil >= user.pinLockedUntil]_vars

\* isPinLocked has returned true on the account with three failed attempts
C15_Witness ==
    /\ user.failedPinAttempts = LockThreshold
    /\ guard = "none"
    /\ ret.op = "isPinLocked"
    /\ ret.before = "incrementFailedPinAttempts"
    /\ ret.value = "true"
    /\ isPinLockedResult(user, now)

\* C16: when pinLockedUntil is in the past, isPinLocked returns false and
\* leaves failedPinAttempts at 0 and pinLockedUntil unset.
C16_ExpiredLockIsCleared ==
    [][(/\ LockExpired(user, now)
        /\ ret'.op = "isPinLocked"
        /\ (ret' # ret \/ user' # user))
       => /\ ret'.value = "false"
          /\ user'.failedPinAttempts = 0
          /\ user'.pinLockedUntil = NoDate]_vars

\* the call after an incrementFailedPinAttempts was an isPinLocked that
\* returned false, and the account has no failed attempts and no lock: the
\* lock of the failed attempts had run out
C16_Witness ==
    /\ ret.op = "isPinLocked"
    /\ ret.before = "incrementFailedPinAttempts"
    /\ ret.value = "false"
    /\ now > LockMinutes
    /\ user.failedPinAttempts = 0
    /\ user.pinLockedUntil = NoDate

\* C17: whenever a PIN-gated operation has verified a correct PIN,
\* failedPinAttempts is 0 and pinLockedUntil is unset afterwards.
C17_VerifiedPinClearsGuard ==
    \A p \in Handlers :
        (user.pinEnabled /\ h[p].verified = "ok")
        => (user.failedPinAttempts = 0 /\ user.pinLockedUntil = NoDate)

\* C18: no stored record holds the PIN of a user in cleartext or in a
\* reversible form: the one-way hash users.pinHash is the only stored trace of
\* it.  Here: the session row never holds the text whose hash is the pinHash
\* of the account.
C18_NoCleartextPin ==
    (onb.pinHash # NoHash /\ session.exists /\ Has(session.context, "tempPin"))
    => hashPin(session.context["tempPin"]) # onb.pinHash

\* C19: the transactions table has at most one row for a hash: a second
\* createTransaction with a hash that is recorded adds no row.
C19_OneRowPerHash ==
    \A i, j \in DOMAIN transactions :
        transactions[i].hash = transactions[j].hash => i = j

\* a createTransaction with a recorded hash was refused and the table has
\* the row of the first call
C19_Witness ==
    /\ ret.op = "createTransaction"
    /\ ret.value = "UniqueConstraint"
    /\ Len(transactions) >= 1

\* C20: the status of a transaction changes from PENDING to CONFIRMED or from
\* PENDING to FAILED only: updateTransactionStatus never changes the status of
\* a row that is CONFIRMED or FAILED.
C20_FinalStatusStays ==
    [][\A i \in DOMAIN transactions :
          (i \in DOMAIN transactions' /\ transactions[i].status # "PENDING")
          => transactions'[i].status = transactions[i].status]_vars

\* C21: once the onboardingStatus of an account is COMPLETED, no later
\* message of the phone goes into the onboarding flow, changes the
\* onboardingStatus or the onboardingStep, or creates wallets again.
C21_CompletedIsTerminal ==
    [][onb.status = "COMPLETED"
       => /\ onb' = onb
          /\ wallet' = wallet
          /\ user'.pinEnabled = user.pinEnabled
          /\ ret' = ret]_vars

\* the account is onboarded with a PIN and a later message has been handled
\* by handleMainFlow up to its reply
C21_Witness ==
    /\ onb.status = "COMPLETED"
    /\ ret.op = "confirmSeedSaved"
    /\ onb.pinHash # NoHash
    /\ h[1].pc = "done"
    /\ h[1].msg = B_saved

\* C22: no reply has in it the message text of an exception of the chain
\* SDK, the record store or a lookup API: a failure that is not a validation
\* or authentication error gives a fixed text.
C22_NoRawErrorText ==
    \A p \in Handlers :
        (h[p].pc = "done" /\ h[p].text = "raw") => ~ReplyHasErrorMessage(h[p])

\* C23: analyzeMessage never throws, whatever the text and whatever the
\* reply of the language model, and the entities it returns are a map, never
\* null or undefined.
C23_EntitiesAlwaysMap ==
    (ret.op = "return" /\ ret.fn = "analyzeMessage")
    => /\ ~ret.value.threw
       /\ ret.value.entities.k = "map"

\* C24: for every string of four decimal digits, isValidPin returns false
\* exactly when the four digits are equal or the digits go up by one at each
\* place or go down by one at each place (the 14 runs 0123..6789, 9876..3210).
C24_WeakPinsAreExactlyRepeatsAndRuns ==
    (ret.op = "return" /\ ret.fn = "isValidPin")
    => LET d == [i \in 1..4 |-> DigitVal(ret.args[1][i])]
           repeated == \A i \in 2..4 : d[i] = d[1]
           ascending == \A i \in 2..4 : d[i] = d[i - 1] + 1
           descending == \A i \in 2..4 : d[i] = d[i - 1] - 1
       IN  /\ Cardinality(sequential) = 14
           /\ ret.value.result = ~(repeated \/ ascending \/ descending)

\* isValidPin has returned false for the run 1234
C24_Witness ==
    /\ ret.op = "return"
    /\ ret.fn = "isValidPin"
    /\ ret.args[1] = B_seqPin
    /\ ~ret.value.result

C26_WrongPinGivesNull ==
    (/\ ret.op = "return"
     /\ ret.fn = "decryptSeed"
     /\ ret.args[3] # ret.args[2])
    => ret.value.seedPhrase = Null

\* C27: the sweep of expired sessions, at whatever moment it runs, deletes
\* exactly the sessions whose expiresAt is earlier than now, returns their
\* number and leaves every other session as it was.
C27_SweepDeletesExactlyExpired ==
    [][(ret'.op = "clearExpiredSessions" /\ ret' # ret)
       => LET rows == [ph \in OtherPhones |-> others[ph]] @@ ("p1" :> session)
              after == [ph \in OtherPhones |-> others'[ph]] @@ ("p1" :> session')
              gone == {ph \in DOMAIN rows : rows[ph].exists /\ rows[ph].expiresAt < now}
          IN  /\ \A ph \in gone : ~after[ph].exists
              /\ \A ph \in DOMAIN rows \ gone : after[ph] = rows[ph]
              /\ ret'.value = ToString(Cardinality(gone))]_vars

\* a sweep has run while a message was being handled and has deleted the
\* session of the phone and the sessions of two other phones
C27_Witness ==
    /\ ret.op = "clearExpiredSessions"
    /\ ret.value = "3"
    /\ ~session.exists
    /\ others["p4"].exists
    /\ \E p \in Handlers : h[p].pc \notin {"idle", "done"}

\* C28: updateSession on a live session stores the old context with every
\* key of the context of the call overwritten and the other keys kept, the
\* old step when the call gives no step, and expiresAt = now + the TTL.
C28_UpdateMergesAndRenews ==
    [][\A p \in Handlers :
          (/\ h[p].where = "updateSession"
           /\ h[p].pc = "update"
           /\ h'[p].pc # "update")
          => LET old == session.context
                 patch == h[p].upd.context
                 new == session'.context
             IN  /\ session.exists /\ session'.exists
                 /\ DOMAIN new = DOMAIN old \cup DOMAIN patch
                 /\ \A k \in DOMAIN patch : new[k] = patch[k]
                 /\ \A k \in DOMAIN old \ DOMAIN patch : new[k] = old[k]
                 /\ session'.currentStep = IF h[p].upd.currentStep = ""
                                           THEN session.currentStep
                                           ELSE h[p].upd.currentStep
                 /\ session'.expiresAt = now + SESSION_EXPIRY_MINUTES]_vars

\* updateSession without a step has overwritten the chain of a session at
\* the PIN step, added a key and kept the address, after the clock has moved
C28_Witness ==
    /\ session.exists
    /\ session.currentStep = "SEND_CRYPTO_PIN"
    /\ Has(session.context, "note")
    /\ session.context["chain"] = S_ethereum
    /\ session.context["address"] = B_solAddr
    /\ now = TickMinutes
    /\ session.expiresAt = TickMinutes + SESSION_EXPIRY_MINUTES
    /\ h[1].where = "updateSession"
    /\ h[1].pc = "done"

\* the message of an execution fails the grammar of the step it arrived at:
\* no supported chain, no address of the chain of the context, no positive
\* number
FailsStepGrammar(hr) ==
    CASE hr.step = "SEND_CRYPTO_CHAIN" -> Trim(ToLowerCase(hr.msg)) \notin sendValidChains
      [] hr.step = "SEND_CRYPTO_ADDRESS" ->
            ~(Has(hr.ctx, "chain") /\ isValidAddress(Trim(hr.msg), hr.ctx["chain"]))
      [] hr.step = "SEND_CRYPTO_AMOUNT" ->
            parseFloat(Trim(hr.msg)) = NaN \/ parseFloat(Trim(hr.msg)) <= 0
      [] OTHER -> FALSE

\* C29: at the chain, address and amount steps of the send flow, a message
\* that fails the grammar of the step is answered with the prompt of the
\* step again, and the session keeps its step and its context.  Messages
\* that are a command (cancel, confirm, help ...) are left out.
C29_BadInputKeepsStep ==
    \A p \in Handlers :
        (/\ h[p].pc = "done"
         /\ FailsStepGrammar(h[p])
         /\ detectSimpleIntent(h[p].msg) = "null")
        => /\ h[p].reply \in {"invalidChain", "invalidAddress", "invalidAmount"}
           /\ session.exists
           /\ session.currentStep = h[p].step
           /\ session.context = h[p].ctx

(***************************************************************************)
(* C30: when the session of an onboarded user is at a non-idle step,       *)
(* handleMainFlow hands the message to handleFlowStep, the handler of that *)
(* step, and to nothing else: no greeting test, keyword classifier or      *)
(* address test takes the message first.                                   *)
(***************************************************************************)
C30_NonIdleGoesToStepHandler ==
    [][\A p \in Handlers :
          (/\ h[p].pc = "handleMainFlow"
           /\ h[p].step # "IDLE"
           /\ h'[p] # h[p])
          => h'[p] = handleFlowStep(h[p], balance)]_vars

(***************************************************************************)
(* C31: the keyword classifier is acted on with regard to the session: a   *)
(* message is answered as a cancellation only when the step is not IDLE,   *)
(* and as a confirmation only when the name of the step contains CONFIRM.  *)
(***************************************************************************)
C31_KeywordsFollowTheStep ==
    [][\A p \in Handlers :
          (/\ h[p].pc = "handleMainFlow"
           /\ h'[p].pc = "done")
          => /\ h'[p].reply = "cancelled" => h[p].step # "IDLE"
             /\ h'[p].reply = "confirm"
                   => h[p].step \in {"SEND_CRYPTO_CONFIRM", "SWAP_TOKENS_CONFIRM"}]_vars

\* the place of an onboarding step in the order of the flow
OnboardingRank(step) ==
    CASE step = "" -> 0
      [] step = "AWAITING_PIN_CHOICE" -> 1
      [] step = "AWAITING_PIN" -> 2
      [] step = "CONFIRMING_PIN" -> 3
      [] step = "DISPLAYING_SEED" -> 4
      [] OTHER -> 5

(***************************************************************************)
(* C32: the onboarding step of an account only moves forward along         *)
(* AWAITING_PIN_CHOICE, AWAITING_PIN, CONFIRMING_PIN, DISPLAYING_SEED,     *)
(* COMPLETED: no step of any execution writes an earlier step, and a PIN   *)
(* confirmation that does not match leaves the step at CONFIRMING_PIN.     *)
(***************************************************************************)
C32_StepOnlyMovesForward ==
    [][/\ OnboardingRank(onb'.step) >= OnboardingRank(onb.step)
       /\ (ret' # ret /\ ret'.op = "confirmPin" /\ ret'.value = "dontMatch")
             => onb.step = "CONFIRMING_PIN" /\ onb'.step = "CONFIRMING_PIN"]_vars

(***************************************************************************)
(* C33: a new user who answers every onboarding prompt with a valid input  *)
(* eventually has onboarding status COMPLETED and wallets; the flow does   *)
(* not stay forever at a step before COMPLETED.                            *)
(***************************************************************************)
C33_ValidAnswersComplete ==
    <>(onb.status = "COMPLETED" /\ wallet # NoWallet)

(***************************************************************************)
(* C34: the transaction pipeline gives the same outcome when the seed of   *)
(* the row cannot be decrypted because its ciphertext or salt is damaged   *)
(* as when the PIN supplied is not the PIN of the account.                 *)
(***************************************************************************)
C34_DamageLooksLikeWrongPin ==
    (ret.op = "return" /\ ret.fn = "sendNative")
    => ret.value.wrongPin = ret.value.corrupted

(***************************************************************************)
(* C35: the failed-attempt counter is incremented atomically.  Every       *)
(* incrementFailedPinAttempts call, whatever other calls are in flight,    *)
(* adds exactly one to the stored counter and returns the new value, and   *)
(* no other step changes the counter except a reset to 0: N calls with no  *)
(* reset in between add exactly N.                                         *)
(***************************************************************************)
C35_IncrementAddsExactlyOne ==
    [][LET incremented == ret' # ret /\ ret'.op = "incrementFailedPinAttempts"
       IN  /\ incremented => /\ user'.failedPinAttempts = user.failedPinAttempts + 1
                             /\ ret'.value = ToString(user'.failedPinAttempts)
           /\ ~incremented => user'.failedPinAttempts \in {user.failedPinAttempts, 0}]_vars

\* two calls in flight, both after their increment, from 2 to 4
C35_Witness ==
    /\ \A p \in Handlers : h[p].pc = "lockAccount"
    /\ user.failedPinAttempts = MaxAttempts
    /\ ret.op = "incrementFailedPinAttempts"
    /\ ret.before = "incrementFailedPinAttempts"
    /\ ret.value = ToString(MaxAttempts)

(***************************************************************************)
(* C36: under any interleaving of incrementFailedPinAttempts,              *)
(* resetFailedPinAttempts and isPinLocked on one account, pinLockedUntil   *)
(* is set only if failedPinAttempts is at least 3.                         *)
(***************************************************************************)
C36_LockOnlyAtThreshold ==
    user.pinLockedUntil # NoDate => user.failedPinAttempts >= LockThreshold

\* the step of handleFlowStep whose handler checks the value a prompt of
\* handleSendCrypto asks for
StepOfPrompt(reply) ==
    CASE reply = "askChain" -> "SEND_CRYPTO_CHAIN"
      [] reply = "askAddress" -> "SEND_CRYPTO_ADDRESS"
      [] reply = "askAmount" -> "SEND_CRYPTO_AMOUNT"
      [] OTHER -> ""

(***************************************************************************)
(* C37: when handleSendCrypto starts a send flow with some of chain,       *)
(* address and amount given, the step it stores is the step whose handler  *)
(* checks the value that its reply asks for.                               *)
(***************************************************************************)
C37_StoredStepMatchesPrompt ==
    (/\ ret.op = "return"
     /\ ret.fn = "handleSendCrypto"
     /\ ret.value.reply \in {"askChain", "askAddress", "askAmount"})
    => ret.value.currentStep = StepOfPrompt(ret.value.reply)

(***************************************************************************)
(* C38: no stored record holds the mnemonic of a wallet in cleartext: the  *)
(* mnemonic is stored only as the encryptedSeed of the wallets row, and    *)
(* the session row of the phone does not hold it.                          *)
(***************************************************************************)
C38_NoCleartextMnemonic ==
    /\ wallet # NoWallet => wallet.encryptedSeed # NoCiphertext
    /\ ~(/\ session.exists
         /\ Has(session.context, "mnemonic")
         /\ session.context["mnemonic"] = Mnemonic)

====
